---- MODULE Spec2Model ----
(***************************************************************************)
(* Timetable generation with a constraint solver.                          *)
(*                                                                         *)
(* Two programs build a CP-SAT model and decode the solver's answer:       *)
(*   TimetableGenerator.py  TimetableApp.solve_timetable_model             *)
(*   TT_prototype.py        solve_timetable                                *)
(*                                                                         *)
(* A model is the set of linear constraints the program hands to the       *)
(* engine.  Each model.Add(sum(vars) <rel> k) is a record                  *)
(*   [vars |-> the decision variables summed, ok |-> the sums allowed].    *)
(* The engine is external: it answers with a status and, for OPTIMAL and   *)
(* FEASIBLE, with any assignment that satisfies every constraint.          *)
(***************************************************************************)
EXTENDS Integers, Sequences, FiniteSets, TLC

VARIABLES
    prog,               \* which program runs: "TimetableGenerator" or "TT_prototype"
    batches,            \* TimetableApp.batches: name -> [subjects: name -> [hours, type]]
    faculty,            \* TimetableApp.faculty: name -> [assignments: subject -> set of batches]
    classrooms,         \* TimetableApp.classrooms: name -> capacity, type, max_daily_hours
    slots,              \* TimetableApp.slots: the slot labels of one day
    saturday_var,       \* the Include-Saturday check box
    weekdays,           \* the weekdays of DAYS a behaviour keeps, never changed
    min_hours_day_var,  \* Min Hours/Day parameter
    max_hours_day_var,  \* Max Hours/Day parameter
    params,             \* the arguments of solve_timetable (TT_prototype)
    outcome,            \* "pending", "returned", "ValueError" or "RuntimeError"
    status,             \* the status the engine answered, "none" before it is asked
    x,                  \* the decision variables the engine set to 1
    num_vars,           \* how many assignment variables x[...] the call created
    solver_calls,       \* how many times solver.Solve(model) ran
    result,             \* what the call returned, None when it raised
    error,              \* the exception the call raised, None when it returned
    class_max_daily_hours_var,  \* the Max Daily Hours spin box of the classroom form
    worker,             \* the solver thread: None, or its progress and what it read
    solver_queue,       \* TimetableApp.solver_queue: the messages not yet processed
    last_schedule_data, \* TimetableApp.last_schedule_data, None before a success
    built_with,         \* the day and slot lists of the solve behind last_schedule_data
    export_buttons,     \* the state of the two export buttons
    shown,              \* what the last display or export read, None before one
    subj_tree,          \* TT_prototype: the rows (name, hours, faculty) of the subject list
    selected_item_for_edit,  \* TimetableApp.selected_item_for_edit, None or a row's name
    update_buttons,     \* the state of the Update buttons of the three tabs
    threads,            \* the solver threads started, by the number of their Generate
    pollers             \* the _process_solver_queue timers started, by the same number

vars == <<prog, batches, faculty, classrooms, slots, saturday_var, weekdays,
          min_hours_day_var, max_hours_day_var, params,
          outcome, status, x, num_vars, solver_calls, result, error,
          class_max_daily_hours_var, worker, solver_queue, last_schedule_data,
          built_with, export_buttons, shown,
          subj_tree, selected_item_for_edit, update_buttons, threads, pollers>>

appVars == <<batches, faculty, classrooms, slots, saturday_var, weekdays,
             min_hours_day_var, max_hours_day_var>>

runVars == <<worker, solver_queue, last_schedule_data, built_with, export_buttons, shown>>

formVars == <<subj_tree, selected_item_for_edit, update_buttons>>

poolVars == <<threads, pollers>>

guiVars == <<class_max_daily_hours_var, runVars, formVars, poolVars>>

callVars == <<outcome, status, x, num_vars, solver_calls, result, error>>

\* Python's None: no value
None == <<>>

\* the window after __init__: the spin box shows the slot count, no thread
\* runs, the queue is empty and nothing was generated
GuiIdle ==
    /\ class_max_daily_hours_var = Len(slots)
    /\ worker = None
    /\ solver_queue = <<>>
    /\ last_schedule_data = None
    /\ built_with = None
    /\ export_buttons = "disabled"
    /\ shown = None
    /\ subj_tree = <<>>
    /\ selected_item_for_edit = None
    /\ update_buttons = [batch |-> "disabled", faculty |-> "disabled", classroom |-> "disabled"]
    /\ threads = <<>>
    /\ pollers = <<>>

-----------------------------------------------------------------------------
(* Bounds of the model. *)

\* a subject asks for up to MaxHours weekly hours
MaxHours == 2
\* a classroom hosts 1..MaxCapacity batches at a time, and the prototype has
\* 1..MaxCapacity rooms
MaxCapacity == 2

-----------------------------------------------------------------------------
(* Names, in lexicographic order, and sorted(...) over them. *)

NameOrder == <<"B1", "B2", "F1", "F2", "Math", "Physics", "R1", "R2", "S1", "S2">>

Sorted(S) == SelectSeq(NameOrder, LAMBDA n : n \in S)

Range(f) == {f[i] : i \in DOMAIN f}

EmptyMap == <<>>

-----------------------------------------------------------------------------
(* The engine.  A constraint allows the sums in c.ok for the variables in  *)
(* c.vars; an assignment is the set X of variables that are 1.             *)

Sum(X, c) == Cardinality(X \cap c.vars)

Satisfies(X, M) == \A c \in M : Sum(X, c) \in c.ok

\* v can still become 1 next to X: none of the constraints on v (cs) would
\* pass its largest allowed sum
Fits(X, v, cs) == \A c \in cs : \E n \in c.ok : Sum(X, c) + 1 <= n

\* every set of variables below the constraints' upper limits that extends X
\* by variables of Vs[i..]; sums only grow, so this misses no solution
RECURSIVE Search(_, _, _, _)
Search(X, i, Vs, On) ==
    {X} \cup UNION { Search(X \cup {Vs[j]}, j + 1, Vs, On) :
                       j \in {k \in i..Len(Vs) : Fits(X, Vs[k], On[Vs[k]])} }

Solutions(Vs, M) ==
    LET On == [v \in Range(Vs) |-> {c \in M : v \in c.vars}]
        Free == SelectSeq(Vs, LAMBDA v : Fits({}, v, On[v]))
    IN  {X \in Search({}, 1, Free, On) : Satisfies(X, M)}

\* what solver.Solve(model) can answer, value giving the objective of every
\* solution: a solution of the highest value under OPTIMAL, any solution
\* under FEASIBLE, INFEASIBLE when there is none, UNKNOWN when the time limit
\* ends the search
SolverAnswers(value) ==
    LET sols == DOMAIN value
        values == {value[X] : X \in sols}
        top == CHOOSE n \in values : \A m \in values : m <= n
        best == {X \in sols : value[X] = top}
    IN  {[status |-> "OPTIMAL", values |-> X] : X \in best}
        \cup {[status |-> "FEASIBLE", values |-> X] : X \in sols}
        \cup (IF sols = {} THEN {[status |-> "INFEASIBLE", values |-> {}]} ELSE {})
        \cup {[status |-> "UNKNOWN", values |-> {}]}

\* the sums a constraint sum(...) <= k allows
AtMost(k) == 0..k

-----------------------------------------------------------------------------
(* TimetableGenerator.py: TimetableApp.solve_timetable_model *)

\* the week of the code is Mon..Fri with seven slots a day; a behaviour keeps
\* the first weekdays of it (Saturday comes on top with the check box), and by
\* default two slots, one in the morning and one starting at 12, each a pair
\* <<start hour, end hour>>
WEEK == <<"Mon", "Tue", "Wed", "Thu", "Fri">>

DAYS == weekdays

DEFAULT_SLOTS == << <<9, 10>>, <<12, 1>> >>

days == IF saturday_var THEN Append(DAYS, "Sat") ELSE DAYS

batch_list == Sorted(DOMAIN batches)
faculty_list == Sorted(DOMAIN faculty)
classroom_list == Sorted(DOMAIN classrooms)
all_subjects == Sorted(UNION {DOMAIN batches[b].subjects : b \in DOMAIN batches})

num_batches == Len(batch_list)
num_faculty == Len(faculty_list)
num_classrooms == Len(classroom_list)
num_subjects == Len(all_subjects)
num_days == Len(days)
num_slots_per_day == Len(slots)
total_slots == num_days * num_slots_per_day

\* the keys (b, s, f, c, t) of the dictionary x, 0-based as in the code
XKeys == (0..num_batches - 1) \X (0..num_subjects - 1) \X (0..num_faculty - 1)
            \X (0..num_classrooms - 1) \X (0..total_slots - 1)

\* the keys in the order the comprehension creates the variables
XOrder ==
    LET nT == total_slots
        nC == num_classrooms
        nF == num_faculty
        nS == num_subjects
    IN  [i \in 1..Cardinality(XKeys) |->
            LET k == i - 1 IN
            << k \div (nS * nF * nC * nT), (k \div (nF * nC * nT)) % nS,
               (k \div (nC * nT)) % nF, (k \div nT) % nC, k % nT >>]

BatchOf(b) == batches[batch_list[b + 1]]
SubjectOf(s) == all_subjects[s + 1]
Requires(b, s) == SubjectOf(s) \in DOMAIN BatchOf(b).subjects

faculty_for_subject(b_name, s_name) ==
    {fac \in DOMAIN faculty :
        /\ s_name \in DOMAIN faculty[fac].assignments
        /\ b_name \in faculty[fac].assignments[s_name]}

\* a subject the batch does not have: all its variables sum to 0
SubjectNotRequired ==
    {[vars |-> {v \in XKeys : v[1] = p[1] /\ v[2] = p[2]}, ok |-> {0}] :
        p \in {q \in (0..num_batches - 1) \X (0..num_subjects - 1) :
                  ~Requires(q[1], q[2])}}

\* every faculty member may teach every subject
AnyFacultyAllowed == {}

\* a faculty member not assigned to the subject for the batch
FacultyNotAssigned ==
    {[vars |-> {v \in XKeys : v[1] = p[1] /\ v[2] = p[2] /\ v[3] = p[3]}, ok |-> {0}] :
        p \in {q \in (0..num_batches - 1) \X (0..num_subjects - 1) \X (0..num_faculty - 1) :
                  /\ Requires(q[1], q[2])
                  /\ faculty_list[q[3] + 1] \notin
                        faculty_for_subject(batch_list[q[1] + 1], SubjectOf(q[2]))}}

\* every classroom may host every subject
AnyClassroomAllowed == {}

\* a classroom whose type is not the subject's type
ClassroomTypeMismatch ==
    {[vars |-> {v \in XKeys : v[1] = p[1] /\ v[2] = p[2] /\ v[4] = p[3]}, ok |-> {0}] :
        p \in {q \in (0..num_batches - 1) \X (0..num_subjects - 1) \X (0..num_classrooms - 1) :
                  /\ Requires(q[1], q[2])
                  /\ classrooms[classroom_list[q[3] + 1]].type
                        # BatchOf(q[1]).subjects[SubjectOf(q[2])].type}}

\* a batch has at most one class in a timeslot
BatchSingleBooking ==
    {[vars |-> {v \in XKeys : v[1] = p[1] /\ v[5] = p[2]}, ok |-> AtMost(1)] :
        p \in (0..num_batches - 1) \X (0..total_slots - 1)}

\* a faculty member teaches at most two classes in a timeslot
FacultyDoubleBooking ==
    {[vars |-> {v \in XKeys : v[3] = p[1] /\ v[5] = p[2]}, ok |-> AtMost(2)] :
        p \in (0..num_faculty - 1) \X (0..total_slots - 1)}

\* a faculty member teaches at most one class in a timeslot
FacultySingleBooking ==
    {[vars |-> {v \in XKeys : v[3] = p[1] /\ v[5] = p[2]}, ok |-> AtMost(1)] :
        p \in (0..num_faculty - 1) \X (0..total_slots - 1)}

\* a classroom hosts one class more than its capacity
ClassroomOverCapacity ==
    {[vars |-> {v \in XKeys : v[4] = p[1] /\ v[5] = p[2]},
      ok |-> AtMost(classrooms[classroom_list[p[1] + 1]].capacity + 1)] :
        p \in (0..num_classrooms - 1) \X (0..total_slots - 1)}

\* a classroom hosts at most capacity classes in a timeslot
ClassroomCapacity ==
    {[vars |-> {v \in XKeys : v[4] = p[1] /\ v[5] = p[2]},
      ok |-> AtMost(classrooms[classroom_list[p[1] + 1]].capacity)] :
        p \in (0..num_classrooms - 1) \X (0..total_slots - 1)}

daily_slots(d) == (d * num_slots_per_day)..((d + 1) * num_slots_per_day - 1)

\* the default daily limit, whatever the classroom's record holds
max_h_default(c_name) == num_slots_per_day

\* classrooms[c_name].get("max_daily_hours", num_slots_per_day)
max_h(c_name) ==
    IF "max_daily_hours" \in DOMAIN classrooms[c_name]
    THEN classrooms[c_name].max_daily_hours
    ELSE num_slots_per_day

\* a classroom is used at most max_h hours a day
ClassroomDailyLimit ==
    {[vars |-> {v \in XKeys : v[4] = p[1] /\ v[5] \in daily_slots(p[2])},
      ok |-> AtMost(max_h(classroom_list[p[1] + 1]))] :
        p \in (0..num_classrooms - 1) \X (0..num_days - 1)}

\* a required subject gets its weekly hours
RequiredHours ==
    {[vars |-> {v \in XKeys : v[1] = p[1] /\ v[2] = p[2]},
      ok |-> {BatchOf(p[1]).subjects[SubjectOf(p[2])].hours}] :
        p \in {q \in (0..num_batches - 1) \X (0..num_subjects - 1) :
                  Requires(q[1], q[2])}}

\* y[b, t] is a Boolean variable equal to the sum of the batch's variables at t
OccupiedLink ==
    {[vars |-> {v \in XKeys : v[1] = p[1] /\ v[5] = p[2]}, ok |-> {0, 1}] :
        p \in (0..num_batches - 1) \X (0..total_slots - 1)}

\* daily_hours (the sum of y over a day) <= max_hours_day
BatchDailyMax ==
    {[vars |-> {v \in XKeys : v[1] = p[1] /\ v[5] \in daily_slots(p[2])},
      ok |-> AtMost(max_hours_day_var)] :
        p \in (0..num_batches - 1) \X (0..num_days - 1)}

\* a daily minimum that is never enforced
BatchDailyMinDropped ==
    {[vars |-> {v \in XKeys : v[1] = p[1] /\ v[5] \in daily_slots(p[2])},
      ok |-> 0..num_slots_per_day] :
        p \in (0..num_batches - 1) \X (0..num_days - 1)}

\* day_has_class: when 1, daily_hours > 0 and daily_hours >= min_hours_day;
\* when 0, daily_hours = 0.  Some value of day_has_class fits exactly these sums.
BatchDailyMin ==
    {[vars |-> {v \in XKeys : v[1] = p[1] /\ v[5] \in daily_slots(p[2])},
      ok |-> {0} \cup {n \in 1..num_slots_per_day : n >= min_hours_day_var}] :
        p \in (0..num_batches - 1) \X (0..num_days - 1)}

\* the constraints of the model handed to solver.Solve
TimetableModel ==
    SubjectNotRequired \cup FacultyNotAssigned \cup ClassroomTypeMismatch
    \cup BatchSingleBooking \cup FacultySingleBooking
    \cup ClassroomCapacity \cup ClassroomDailyLimit
    \cup RequiredHours \cup OccupiedLink \cup BatchDailyMax \cup BatchDailyMin

\* The objective.  Every indicator is a Boolean variable (0 or 1) of the model;
\* the values an indicator can take next to the assignment X are those its
\* OnlyEnforceIf constraints allow.

MAX_CONSECUTIVE_CLASSES == 3
WEIGHT_ADJACENCY == 5
WEIGHT_PENALTY_FREE_DAY == 1000
WEIGHT_PENALTY_LONG_STRETCH == 50
WEIGHT_PENALTY_FACULTY_PREFERENCE == 20

\* the value of y[b, t]
y(X, b, t) == Cardinality({v \in X : v[1] = b /\ v[5] = t})

\* sum(y[b, d * num_slots_per_day + k] for k in range(num_slots_per_day))
daily_hours(X, b, d) == Cardinality({v \in X : v[1] = b /\ v[5] \in daily_slots(d)})

\* adj[b, d, k]: AddBoolAnd([y[b, t], y[b, t+1]]).OnlyEnforceIf(adj)
AdjKeys == (0..num_batches - 1) \X (0..num_days - 1) \X (0..num_slots_per_day - 2)

adj_values(X, key) ==
    LET t == key[2] * num_slots_per_day + key[3] IN
    {v \in {0, 1} : v = 1 => (y(X, key[1], t) = 1 /\ y(X, key[1], t + 1) = 1)}

\* is_free[b, d]: Add(daily_hours == 0).OnlyEnforceIf(is_free)
FreeKeys == (0..num_batches - 1) \X (0..num_days - 1)

is_free_values(X, key) ==
    {v \in {0, 1} : v = 1 => daily_hours(X, key[1], key[2]) = 0}

\* is_long[b, d, k]: AddBoolAnd(stretch).OnlyEnforceIf(is_long)
LongKeys ==
    (0..num_batches - 1) \X (0..num_days - 1)
        \X (0..num_slots_per_day - MAX_CONSECUTIVE_CLASSES - 1)

is_long_values(X, key) ==
    LET t_start == key[2] * num_slots_per_day + key[3] IN
    {v \in {0, 1} :
        v = 1 => \A i \in 0..MAX_CONSECUTIVE_CLASSES : y(X, key[1], t_start + i) = 1}

\* faculty[f_name].get("preferences", {}).get("prefers_morning")
prefers_morning(f_name) ==
    /\ "preferences" \in DOMAIN faculty[f_name]
    /\ "prefers_morning" \in DOMAIN faculty[f_name].preferences
    /\ faculty[f_name].preferences.prefers_morning

\* int(self.slots[k].split('-')[0]): the number before the dash of the label
slot_start_hour(k) == slots[k + 1][1]

morning_slots_end_hour == 12

\* has_class[f, t], for a faculty member who prefers mornings and a slot whose
\* label starts at 12 or more: Add(sum(x[b,s,f,c,t]) > 0).OnlyEnforceIf(has_class)
PrefKeys ==
    {key \in (0..num_faculty - 1) \X (0..total_slots - 1) :
        /\ prefers_morning(faculty_list[key[1] + 1])
        /\ slot_start_hour(key[2] % num_slots_per_day) >= morning_slots_end_hour}

has_class_values(X, key) ==
    {v \in {0, 1} :
        v = 1 => Cardinality({w \in X : w[3] = key[1] /\ w[5] = key[2]}) > 0}

\* the largest value sum(objective_terms) takes next to X: a rewarded
\* indicator counts when it can be 1, a penalised one when it cannot be 0
Objective(X) ==
    WEIGHT_ADJACENCY * Cardinality({k \in AdjKeys : 1 \in adj_values(X, k)})
    - WEIGHT_PENALTY_FREE_DAY * Cardinality({k \in FreeKeys : 0 \notin is_free_values(X, k)})
    - WEIGHT_PENALTY_LONG_STRETCH
        * Cardinality({k \in LongKeys : 0 \notin is_long_values(X, k)})
    - WEIGHT_PENALTY_FACULTY_PREFERENCE
        * Cardinality({k \in PrefKeys : 0 \notin has_class_values(X, k)})

\* the decoding loops: the last variable found 1 in the order s, f, c stays
Later(u, w) ==
    \/ u[2] < w[2]
    \/ u[2] = w[2] /\ u[3] < w[3]
    \/ u[2] = w[2] /\ u[3] = w[3] /\ u[4] <= w[4]

ScheduleCell(X, b, t) ==
    LET hits == {v \in X : v[1] = b /\ v[5] = t} IN
    IF hits = {} THEN None
    ELSE LET w == CHOOSE w \in hits : \A u \in hits : Later(u, w)
         IN  <<all_subjects[w[2] + 1], faculty_list[w[3] + 1], classroom_list[w[4] + 1]>>

DecodeSchedule(X) ==
    [b \in 0..num_batches - 1 |-> [t \in 0..total_slots - 1 |-> ScheduleCell(X, b, t)]]

\* a count that stops after the first batch's row
WorkloadsOfFirstBatch(schedule) ==
    [f \in DOMAIN faculty |->
        Cardinality({p \in {0} \X (0..total_slots - 1) :
                        /\ num_batches > 0
                        /\ schedule[p[1]][p[2]] # None
                        /\ schedule[p[1]][p[2]][2] = f})]

Workloads(schedule) ==
    [f \in DOMAIN faculty |->
        Cardinality({p \in (0..num_batches - 1) \X (0..total_slots - 1) :
                        /\ schedule[p[1]][p[2]] # None
                        /\ schedule[p[1]][p[2]][2] = f})]

\* a status check that lets UNKNOWN through
AcceptedStatusesWithUnknown == {"OPTIMAL", "FEASIBLE", "UNKNOWN"}

\* the statuses after which a schedule is decoded
AcceptedStatuses == {"OPTIMAL", "FEASIBLE"}

\* the exception raised after a status that is not accepted, whatever it is
SolveFailure(st) ==
    [type |-> "RuntimeError",
     message |-> "No feasible solution found. Check constraints and parameters (e.g., min/max hours per day)."]

\* solve_timetable_model returns the decoded schedule
SolveModelReturns ==
    /\ prog = "TimetableGenerator"
    /\ outcome = "pending"
    /\ \E a \in SolverAnswers([X \in Solutions(XOrder, TimetableModel) |-> Objective(X)]) :
          /\ a.status \in AcceptedStatuses
          /\ status' = a.status
          /\ x' = a.values
          /\ result' = [schedule |-> DecodeSchedule(a.values),
                        batch_list |-> batch_list,
                        workloads |-> Workloads(DecodeSchedule(a.values))]
    /\ num_vars' = Cardinality(XKeys)
    /\ solver_calls' = solver_calls + 1
    /\ outcome' = "returned"
    /\ UNCHANGED <<prog, appVars, guiVars, params, error>>

\* solve_timetable_model raises RuntimeError("No feasible solution found...")
SolveModelRaises ==
    /\ prog = "TimetableGenerator"
    /\ outcome = "pending"
    /\ \E a \in SolverAnswers([X \in Solutions(XOrder, TimetableModel) |-> Objective(X)]) :
          /\ a.status \notin AcceptedStatuses
          /\ status' = a.status
          /\ x' = a.values
          /\ error' = SolveFailure(a.status)
    /\ result' = None
    /\ num_vars' = Cardinality(XKeys)
    /\ solver_calls' = solver_calls + 1
    /\ outcome' = "RuntimeError"
    /\ UNCHANGED <<prog, appVars, guiVars, params>>

-----------------------------------------------------------------------------
(* TT_prototype.py: solve_timetable *)

\* DAYS and SLOTS, the defaults of the arguments days and slots, kept to two
\* days of two slots
PROTO_DAYS == <<"Mon", "Tue">>

PROTO_SLOTS == << <<9, 10>>, <<10, 11>> >>

p_num_subjects == Len(params.subjects)
p_num_days == Len(params.days)
p_num_slots_per_day == Len(params.slots)
p_total_slots == p_num_days * p_num_slots_per_day

\* sum of a sequence of numbers
RECURSIVE SeqSum(_)
SeqSum(q) == IF q = <<>> THEN 0 ELSE Head(q) + SeqSum(Tail(q))

required_per_batch == SeqSum([i \in 1..p_num_subjects |-> params.subjects[i][2]])
total_required_all_batches == required_per_batch * params.num_batches
max_possible_with_rooms == params.num_rooms * p_total_slots

\* the feasibility checks without the check of the rooms
FeasibilityCheckWithoutRooms ==
    IF params.max_per_day > p_num_slots_per_day THEN "max_per_day"
    ELSE IF params.max_per_week > p_total_slots THEN "max_per_week"
    ELSE IF params.min_per_day > params.max_per_day THEN "min_per_day"
    ELSE IF required_per_batch > params.max_per_week THEN "required_per_batch"
    ELSE "none"

\* the basic feasibility checks, in order; "none" when all pass
FeasibilityCheck ==
    IF params.max_per_day > p_num_slots_per_day THEN "max_per_day"
    ELSE IF params.max_per_week > p_total_slots THEN "max_per_week"
    ELSE IF params.min_per_day > params.max_per_day THEN "min_per_day"
    ELSE IF required_per_batch > params.max_per_week THEN "required_per_batch"
    ELSE IF total_required_all_batches > max_possible_with_rooms THEN "rooms"
    ELSE "none"

\* the keys (b, s_idx, t) of the dictionary x
PKeys == (0..params.num_batches - 1) \X (0..p_num_subjects - 1) \X (0..p_total_slots - 1)

POrder ==
    [i \in 1..Cardinality(PKeys) |->
        LET k == i - 1 IN
        << k \div (p_num_subjects * p_total_slots),
           (k \div p_total_slots) % p_num_subjects, k % p_total_slots >>]

p_day_ts(d) == {d * p_num_slots_per_day + k : k \in 0..p_num_slots_per_day - 1}

\* y[b, t] is a Boolean variable equal to the sum of the batch's subjects at t
p_OccupiedLink ==
    {[vars |-> {v \in PKeys : v[1] = p[1] /\ v[3] = p[2]}, ok |-> {0, 1}] :
        p \in (0..params.num_batches - 1) \X (0..p_total_slots - 1)}

\* daily_hours <= max_per_day
p_DailyMax ==
    {[vars |-> {v \in PKeys : v[1] = p[1] /\ v[3] \in p_day_ts(p[2])},
      ok |-> AtMost(params.max_per_day)] :
        p \in (0..params.num_batches - 1) \X (0..p_num_days - 1)}

\* is_active: when 1, daily_hours >= 1, and daily_hours >= min_per_day if that
\* is positive; when 0, daily_hours = 0
p_DayActive ==
    {[vars |-> {v \in PKeys : v[1] = p[1] /\ v[3] \in p_day_ts(p[2])},
      ok |-> {0} \cup {n \in 1..p_num_slots_per_day :
                          params.min_per_day > 0 => n >= params.min_per_day}] :
        p \in (0..params.num_batches - 1) \X (0..p_num_days - 1)}

\* the sum of y over the week <= max_per_week
p_WeeklyMax ==
    {[vars |-> {v \in PKeys : v[1] = b}, ok |-> AtMost(params.max_per_week)] :
        b \in 0..params.num_batches - 1}

\* every subject gets its weekly hours in every batch
p_SubjectHours ==
    {[vars |-> {v \in PKeys : v[1] = p[1] /\ v[2] = p[2]},
      ok |-> {params.subjects[p[2] + 1][2]}] :
        p \in (0..params.num_batches - 1) \X (0..p_num_subjects - 1)}

\* at most num_rooms batches are occupied in a timeslot
p_RoomCapacity ==
    {[vars |-> {v \in PKeys : v[3] = t}, ok |-> AtMost(params.num_rooms)] :
        t \in 0..p_total_slots - 1}

\* at most faculty_count batches have the subject in a timeslot
p_FacultyPerSubject ==
    {[vars |-> {v \in PKeys : v[2] = p[1] /\ v[3] = p[2]},
      ok |-> AtMost(params.subjects[p[1] + 1][3])] :
        p \in (0..p_num_subjects - 1) \X (0..p_total_slots - 1)}

\* slot_filled[t] is an integer variable of 0..num_rooms equal to the sum of y at t
p_SlotFilled ==
    {[vars |-> {v \in PKeys : v[3] = t}, ok |-> 0..params.num_rooms] :
        t \in 0..p_total_slots - 1}

PrototypeModel ==
    p_OccupiedLink \cup p_DailyMax \cup p_DayActive \cup p_WeeklyMax
    \cup p_SubjectHours \cup p_RoomCapacity \cup p_FacultyPerSubject \cup p_SlotFilled

\* a decoding that writes the first subject's name where nothing is taught
p_ScheduleCellNeverFree(X, b, t) ==
    LET hits == {v[2] : v \in {u \in X : u[1] = b /\ u[3] = t}} IN
    IF hits = {} THEN params.subjects[1][1]
    ELSE params.subjects[(CHOOSE s \in hits : \A r \in hits : r <= s) + 1][1]

\* schedule[b][t]: the name of the last subject found 1, "Free" otherwise
p_ScheduleCell(X, b, t) ==
    LET hits == {v[2] : v \in {u \in X : u[1] = b /\ u[3] = t}} IN
    IF hits = {} THEN "Free"
    ELSE params.subjects[(CHOOSE s \in hits : \A r \in hits : r <= s) + 1][1]

p_DecodeSchedule(X) ==
    [b \in 0..params.num_batches - 1 |->
        [t \in 0..p_total_slots - 1 |-> p_ScheduleCell(X, b, t)]]

\* solver.Value(y[(b, t)])
p_y(X, b, t) == Cardinality({v \in X : v[1] = b /\ v[3] = t})

\* The objective of solve_timetable, with its indicators as in the generator.

p_WEIGHT_FULL_SLOT == 1000
p_WEIGHT_ADJACENCY == 5
p_WEIGHT_PENALTY_SAME_DAY_SUBJECT == 10
p_WEIGHT_PENALTY_FREE_DAY == 2000

p_daily_hours(X, b, d) == Cardinality({v \in X : v[1] = b /\ v[3] \in p_day_ts(d)})

\* is_active[b, d]: daily_hours >= 1 when 1, daily_hours == 0 when 0
p_FreeKeys == (0..params.num_batches - 1) \X (0..p_num_days - 1)

is_active_values(X, key) ==
    {v \in {0, 1} :
        /\ v = 1 => p_daily_hours(X, key[1], key[2]) >= 1
        /\ v = 0 => p_daily_hours(X, key[1], key[2]) = 0}

\* free_day_penalty_vars: is_active.Not()
free_day_penalty_values(X, key) == {1 - v : v \in is_active_values(X, key)}

\* penalty_var[b, s_idx, d], only created if hours <= num_days:
\* NewIntVar(0, num_slots_per_day - 1) with penalty_var >= daily_subject_hours - 1
SameDayKeys ==
    {key \in (0..params.num_batches - 1) \X (0..p_num_subjects - 1) \X (0..p_num_days - 1) :
        params.subjects[key[2] + 1][2] <= p_num_days}

daily_subject_hours(X, key) ==
    Cardinality({v \in X : v[1] = key[1] /\ v[2] = key[2] /\ v[3] \in p_day_ts(key[3])})

penalty_var_values(X, key) ==
    {n \in 0..p_num_slots_per_day - 1 : n >= daily_subject_hours(X, key) - 1}

\* full_slot[t]: slot_filled[t] == num_rooms when 1, != num_rooms when 0
slot_filled(X, t) == Cardinality({v \in X : v[3] = t})

full_slot_values(X, t) ==
    {v \in {0, 1} :
        /\ v = 1 => slot_filled(X, t) = params.num_rooms
        /\ v = 0 => slot_filled(X, t) # params.num_rooms}

\* adj_var[b, d, k]: both y when 1, not both when 0
p_AdjKeys ==
    (0..params.num_batches - 1) \X (0..p_num_days - 1) \X (0..p_num_slots_per_day - 2)

adj_var_values(X, key) ==
    LET t == key[2] * p_num_slots_per_day + key[3]
        both == p_y(X, key[1], t) = 1 /\ p_y(X, key[1], t + 1) = 1
    IN  {v \in {0, 1} : (v = 1 => both) /\ (v = 0 => ~both)}

Least(S) == CHOOSE n \in S : \A m \in S : n <= m

\* the largest value the maximised expression takes next to X
p_Objective(X) ==
    p_WEIGHT_FULL_SLOT * Cardinality({t \in 0..p_total_slots - 1 : 1 \in full_slot_values(X, t)})
    + p_WEIGHT_ADJACENCY * Cardinality({k \in p_AdjKeys : 1 \in adj_var_values(X, k)})
    - p_WEIGHT_PENALTY_SAME_DAY_SUBJECT
        * Cardinality(UNION {{<<k, j>> : j \in 1..Least(penalty_var_values(X, k))} :
                                k \in SameDayKeys})
    - p_WEIGHT_PENALTY_FREE_DAY
        * Cardinality({k \in p_FreeKeys : 0 \notin free_day_penalty_values(X, k)})

\* room numbers handed to every batch, occupied or not
p_RoomAssignmentsOfAll(X) ==
    [t \in 0..p_total_slots - 1 |->
        [idx \in 1..params.num_batches |-> <<idx, idx - 1>>]]

\* room_assignments[t]: (idx + 1, b) for the occupied batches in order of b
p_RoomAssignments(X) ==
    [t \in 0..p_total_slots - 1 |->
        LET occupied_batches ==
              SelectSeq([i \in 1..params.num_batches |-> i - 1],
                        LAMBDA b : p_y(X, b, t) = 1)
        IN  [idx \in 1..Len(occupied_batches) |-> <<idx, occupied_batches[idx]>>]]

\* the statuses after which solve_timetable decodes a schedule
p_AcceptedStatuses == {"OPTIMAL", "FEASIBLE"}

\* the exception raised after a status that is not accepted, whatever it is
p_SolveFailure(st) ==
    [type |-> "RuntimeError",
     message |-> "Solver found no feasible solution within time limit."]

\* solve_timetable raises ValueError from a feasibility check
SolveTimetableRejects ==
    /\ prog = "TT_prototype"
    /\ outcome = "pending"
    /\ FeasibilityCheck # "none"
    /\ outcome' = "ValueError"
    /\ error' = [type |-> "ValueError", message |-> FeasibilityCheck]
    /\ result' = None
    /\ UNCHANGED <<prog, appVars, guiVars, params, status, x, num_vars, solver_calls>>

\* solve_timetable returns (schedule, room_assignments)
SolveTimetableReturns ==
    /\ prog = "TT_prototype"
    /\ outcome = "pending"
    /\ FeasibilityCheck = "none"
    /\ \E a \in SolverAnswers([X \in Solutions(POrder, PrototypeModel) |-> p_Objective(X)]) :
          /\ a.status \in p_AcceptedStatuses
          /\ status' = a.status
          /\ x' = a.values
          /\ result' = [schedule |-> p_DecodeSchedule(a.values),
                        room_assignments |-> p_RoomAssignments(a.values)]
    /\ num_vars' = Cardinality(PKeys)
    /\ solver_calls' = solver_calls + 1
    /\ outcome' = "returned"
    /\ UNCHANGED <<prog, appVars, guiVars, params, error>>

\* solve_timetable raises RuntimeError("Solver found no feasible solution...")
SolveTimetableRaises ==
    /\ prog = "TT_prototype"
    /\ outcome = "pending"
    /\ FeasibilityCheck = "none"
    /\ \E a \in SolverAnswers([X \in Solutions(POrder, PrototypeModel) |-> p_Objective(X)]) :
          /\ a.status \notin p_AcceptedStatuses
          /\ status' = a.status
          /\ x' = a.values
          /\ error' = p_SolveFailure(a.status)
    /\ result' = None
    /\ num_vars' = Cardinality(PKeys)
    /\ solver_calls' = solver_calls + 1
    /\ outcome' = "RuntimeError"
    /\ UNCHANGED <<prog, appVars, guiVars, params>>

-----------------------------------------------------------------------------
(* The configurations a solve starts from. *)

Types == {"Lecture", "Lab"}
BatchNames == {"B1", "B2"}

Subject(h, ty) == [hours |-> h, type |-> ty]
Batch(subjects) == [subjects |-> subjects]

FirstBatchSubjects ==
    {("S1" :> Subject(h, "Lecture")) : h \in 0..MaxHours}
    \cup {("S1" :> Subject(1, "Lecture") @@ "S2" :> Subject(1, "Lab"))}

BatchInputs ==
    {("B1" :> Batch(m)) : m \in FirstBatchSubjects}
    \cup {("B1" :> Batch(m) @@ "B2" :> Batch("S1" :> Subject(1, "Lecture"))) :
            m \in FirstBatchSubjects}

Faculty(assignments) == [assignments |-> assignments]

TeachesAll == ("S1" :> BatchNames @@ "S2" :> BatchNames)

FacultyInputs ==
    { ("F1" :> Faculty(TeachesAll)),
      ("F1" :> Faculty("S1" :> BatchNames)),
      ("F1" :> Faculty(TeachesAll) @@ "F2" :> Faculty(TeachesAll)),
      ("F1" :> Faculty("S1" :> {"B1"}) @@ "F2" :> Faculty("S1" :> {"B2"} @@ "S2" :> {"B1"})) }

Classroom(cap, ty, mdh) == [capacity |-> cap, type |-> ty, max_daily_hours |-> mdh]

ClassroomInputs ==
    {("R1" :> Classroom(cap, "Lecture", mdh)) :
        cap \in 1..MaxCapacity, mdh \in 1..Len(DEFAULT_SLOTS)}
    \cup {("R1" :> Classroom(cap, "Lecture", mdh) @@ "R2" :> [capacity |-> 1, type |-> "Lab"]) :
            cap \in 1..MaxCapacity, mdh \in 1..Len(DEFAULT_SLOTS)}

InitGenerator ==
    /\ prog = "TimetableGenerator"
    /\ batches \in BatchInputs
    /\ faculty \in FacultyInputs
    /\ classrooms \in ClassroomInputs
    /\ slots = DEFAULT_SLOTS
    /\ saturday_var \in BOOLEAN
    /\ weekdays = SubSeq(WEEK, 1, 1)
    /\ min_hours_day_var \in 0..Len(DEFAULT_SLOTS)
    /\ max_hours_day_var \in 1..Len(DEFAULT_SLOTS) + 1
    /\ params = None
    /\ outcome = "pending"
    /\ status = "none"
    /\ x = {}
    /\ num_vars = 0
    /\ solver_calls = 0
    /\ result = None
    /\ error = None
    /\ GuiIdle

SubjectNames == {"Math", "Physics"}

BatchCounts == {1, 2}
FacultyCounts == {1, 2}

SubjectTuples == SubjectNames \X (1..MaxHours) \X FacultyCounts

\* one or two subjects; the first is named Math, the second may repeat the name
SubjectLists ==
    {<<a>> : a \in {t \in SubjectTuples : t[1] = "Math"}}
    \cup {t \in SubjectTuples \X SubjectTuples : t[1][1] = "Math"}

InitPrototype ==
    /\ prog = "TT_prototype"
    /\ batches = EmptyMap
    /\ faculty = EmptyMap
    /\ classrooms = EmptyMap
    /\ slots = DEFAULT_SLOTS
    /\ saturday_var = FALSE
    /\ weekdays = SubSeq(WEEK, 1, 1)
    /\ min_hours_day_var = 1
    /\ max_hours_day_var = 1
    /\ params \in [subjects : SubjectLists,
                   num_batches : BatchCounts,
                   num_rooms : 1..MaxCapacity,
                   max_per_day : 1..Len(PROTO_SLOTS) + 1,
                   max_per_week : (Len(PROTO_DAYS) * Len(PROTO_SLOTS) - 1)
                                    ..(Len(PROTO_DAYS) * Len(PROTO_SLOTS) + 1),
                   min_per_day : 0..Len(PROTO_SLOTS),
                   days : {PROTO_DAYS},
                   slots : {PROTO_SLOTS}]
    /\ outcome = "pending"
    /\ status = "none"
    /\ x = {}
    /\ num_vars = 0
    /\ solver_calls = 0
    /\ result = None
    /\ error = None
    /\ GuiIdle

Init == InitGenerator \/ InitPrototype

Next ==
    \/ SolveModelReturns
    \/ SolveModelRaises
    \/ SolveTimetableRejects
    \/ SolveTimetableReturns
    \/ SolveTimetableRaises

Spec == Init /\ [][Next]_vars

\* the calls of solve_timetable alone
NextPrototype ==
    \/ SolveTimetableRejects
    \/ SolveTimetableReturns
    \/ SolveTimetableRaises

SpecPrototype == InitPrototype /\ [][NextPrototype]_vars

-----------------------------------------------------------------------------
(* Solves on larger grids with one batch and one subject, where the        *)
(* objective decides: a day of four slots, and the week of five days of    *)
(* six slots.                                                              *)

FOUR_SLOTS == << <<9, 10>>, <<10, 11>>, <<11, 12>>, <<12, 1>> >>
SIX_SLOTS == << <<9, 10>>, <<10, 11>>, <<11, 12>>, <<12, 1>>, <<2, 3>>, <<3, 4>> >>

\* the weekly hours of the subject: one more than MAX_CONSECUTIVE_CLASSES
\* fills the day of four slots
SoftHours == {MAX_CONSECUTIVE_CLASSES, MAX_CONSECUTIVE_CLASSES + 1}

\* a faculty record with its preferences
FacultyWithPreferences(assignments, pm) ==
    [assignments |-> assignments, preferences |-> [prefers_morning |-> pm]]

SoftFacultyInputs ==
    {("F1" :> Faculty("S1" :> {"B1"}))}
    \cup {("F1" :> FacultyWithPreferences("S1" :> {"B1"}, pm)) : pm \in BOOLEAN}

InitSoftGenerator ==
    /\ prog = "TimetableGenerator"
    /\ \E h \in SoftHours :
          /\ batches = ("B1" :> Batch("S1" :> Subject(h, "Lecture")))
          /\ \/ /\ slots = FOUR_SLOTS
                /\ weekdays = SubSeq(WEEK, 1, 1)
                /\ faculty \in SoftFacultyInputs
             \/ /\ slots = SIX_SLOTS
                /\ weekdays = WEEK
                /\ h = MAX_CONSECUTIVE_CLASSES
                /\ faculty = ("F1" :> Faculty("S1" :> {"B1"}))
    /\ classrooms = ("R1" :> Classroom(1, "Lecture", Len(slots)))
    /\ saturday_var = FALSE
    /\ min_hours_day_var \in {0, 1}
    /\ max_hours_day_var = Len(SIX_SLOTS)
    /\ params = None

SoftSubjectLists ==
    {<< <<"Math", h, 1>> >> : h \in SoftHours}

\* five days of six slots, two days of two slots, one day of four slots
SoftGrids ==
    { <<WEEK, SIX_SLOTS>>, <<SubSeq(WEEK, 1, 2), PROTO_SLOTS>>, <<SubSeq(WEEK, 1, 1), FOUR_SLOTS>> }

InitSoftPrototype ==
    /\ prog = "TT_prototype"
    /\ batches = EmptyMap
    /\ faculty = EmptyMap
    /\ classrooms = EmptyMap
    /\ slots = DEFAULT_SLOTS
    /\ saturday_var = FALSE
    /\ weekdays = SubSeq(WEEK, 1, 1)
    /\ min_hours_day_var = 1
    /\ max_hours_day_var = 1
    /\ \E g \in SoftGrids :
          params \in [subjects : {l \in SoftSubjectLists :
                                     g[1] = WEEK => l[1][2] = MAX_CONSECUTIVE_CLASSES},
                      num_batches : {1},
                      num_rooms : {1},
                      max_per_day : {Len(g[2])},
                      max_per_week : {Len(g[1]) * Len(g[2]), Len(g[1]) * Len(g[2]) + 1},
                      min_per_day : {0, 1},
                      days : {g[1]},
                      slots : {g[2]}]

InitSoft ==
    /\ InitSoftGenerator \/ InitSoftPrototype
    /\ outcome = "pending"
    /\ status = "none"
    /\ x = {}
    /\ num_vars = 0
    /\ solver_calls = 0
    /\ result = None
    /\ error = None
    /\ GuiIdle

SpecSoft == InitSoft /\ [][Next]_vars

-----------------------------------------------------------------------------
(* Properties of a finished call. *)

Returned == outcome = "returned"
Generator == prog = "TimetableGenerator"
Prototype == prog = "TT_prototype"

Slots == 0..total_slots - 1
Batches == 0..num_batches - 1
p_Slots == 0..p_total_slots - 1
p_Batches == 0..params.num_batches - 1

\* the timeslots in which the decoded schedule teaches batch b the subject
TaughtSlots(b, s_name) ==
    {t \in Slots : result.schedule[b][t] # None /\ result.schedule[b][t][1] = s_name}

\* the occupied timeslots of batch b on day d
OccupiedOn(b, d) == {t \in daily_slots(d) : result.schedule[b][t] # None}
p_OccupiedOn(b, d) == {t \in p_day_ts(d) : p_y(x, b, t) = 1}

\* C1: a returned schedule teaches every batch every subject it requires in
\* exactly as many timeslots as the subject's declared weekly hours
C1_ExactHours ==
    /\ (Generator /\ Returned) =>
          \A b \in Batches : \A s_name \in DOMAIN BatchOf(b).subjects :
              Cardinality(TaughtSlots(b, s_name)) = BatchOf(b).subjects[s_name].hours
    /\ (Prototype /\ Returned) =>
          \A b \in p_Batches : \A i \in 1..p_num_subjects :
              Cardinality({t \in p_Slots : result.schedule[b][t] = params.subjects[i][1]})
                = params.subjects[i][2]

\* C2: in an accepted solution at most one assignment variable is 1 for a
\* batch and timeslot, at most one for a faculty member and timeslot, and no
\* faculty member is in the cells of two batches at the same timeslot
C2_SingleBooking ==
    (Generator /\ Returned) =>
        /\ \A b \in Batches : \A t \in Slots :
              Cardinality({v \in x : v[1] = b /\ v[5] = t}) <= 1
        /\ \A f \in 0..num_faculty - 1 : \A t \in Slots :
              Cardinality({v \in x : v[3] = f /\ v[5] = t}) <= 1
        /\ \A t \in Slots : \A b1 \in Batches : \A b2 \in Batches :
              (/\ b1 # b2
               /\ result.schedule[b1][t] # None
               /\ result.schedule[b2][t] # None)
              => result.schedule[b1][t][2] # result.schedule[b2][t][2]

C2_Witness ==
    /\ Generator /\ Returned
    /\ num_batches = 2
    /\ \E t1 \in Slots : \E t2 \in Slots :
          /\ t1 # t2
          /\ result.schedule[0][t1] # None
          /\ result.schedule[1][t2] # None
          /\ result.schedule[0][t1][2] = result.schedule[1][t2][2]
          /\ result.schedule[0][t2] = None

\* C3: no classroom hosts more batches in a timeslot than its capacity, and
\* the prototype never has more than num_rooms batches occupied in a timeslot
C3_ClassroomCapacity ==
    /\ (Generator /\ Returned) =>
          \A c_name \in DOMAIN classrooms : \A t \in Slots :
              Cardinality({b \in Batches :
                              /\ result.schedule[b][t] # None
                              /\ result.schedule[b][t][3] = c_name})
                <= classrooms[c_name].capacity
    /\ (Prototype /\ Returned) =>
          \A t \in p_Slots :
              /\ Cardinality({b \in p_Batches : p_y(x, b, t) = 1}) <= params.num_rooms
              /\ Len(result.room_assignments[t]) <= params.num_rooms

C3_Witness ==
    /\ Generator /\ Returned
    /\ \E c_name \in DOMAIN classrooms : \E t \in Slots :
          /\ classrooms[c_name].capacity = 2
          /\ \A b \in {0, 1} :
                /\ b \in Batches
                /\ result.schedule[b][t] # None
                /\ result.schedule[b][t][3] = c_name

\* C4: on every day a batch has no class at all or between min-hours-per-day
\* and max-hours-per-day classes, whatever the two limits are
C4_DailyWindow ==
    /\ (Generator /\ Returned) =>
          \A b \in Batches : \A d \in 0..num_days - 1 :
              LET n == Cardinality(OccupiedOn(b, d)) IN
              n = 0 \/ (min_hours_day_var <= n /\ n <= max_hours_day_var)
    /\ (Prototype /\ Returned) =>
          \A b \in p_Batches : \A d \in 0..p_num_days - 1 :
              LET n == Cardinality(p_OccupiedOn(b, d)) IN
              n = 0 \/ (params.min_per_day <= n /\ n <= params.max_per_day)

C4_Witness ==
    /\ Generator /\ Returned
    /\ num_days = 2
    /\ min_hours_day_var = 2
    /\ Cardinality(OccupiedOn(0, 0)) = 0
    /\ Cardinality(OccupiedOn(0, 1)) = 2

\* C5: every non-empty cell of a batch names a subject the batch requires, a
\* faculty member assigned to that subject for the batch, and a classroom of
\* the subject's type
C5_StructuralMatching ==
    (Generator /\ Returned) =>
        \A b \in Batches : \A t \in Slots :
            LET cell == result.schedule[b][t] IN
            cell # None =>
                /\ cell[1] \in DOMAIN BatchOf(b).subjects
                /\ cell[1] \in DOMAIN faculty[cell[2]].assignments
                /\ batch_list[b + 1] \in faculty[cell[2]].assignments[cell[1]]
                /\ classrooms[cell[3]].type = BatchOf(b).subjects[cell[1]].type

C5_Witness ==
    /\ Generator /\ Returned
    /\ num_classrooms = 2
    /\ num_faculty = 2
    /\ \E t1 \in Slots : \E t2 \in Slots :
          /\ result.schedule[0][t1] # None
          /\ result.schedule[0][t2] # None
          /\ result.schedule[0][t1][1] = "S1"
          /\ result.schedule[0][t2][1] = "S2"
          /\ result.schedule[0][t1][3] = "R1"
          /\ result.schedule[0][t2][3] = "R2"
          /\ result.schedule[0][t1][2] # result.schedule[0][t2][2]

\* the assignments the solution and the decoded schedule place in a classroom on a day
PlacedOn(c_name, d) ==
    {p \in Batches \X daily_slots(d) :
        /\ result.schedule[p[1]][p[2]] # None
        /\ result.schedule[p[1]][p[2]][3] = c_name}

DailyCap(c_name) ==
    IF "max_daily_hours" \in DOMAIN classrooms[c_name]
    THEN classrooms[c_name].max_daily_hours
    ELSE Len(slots)

\* C6: no classroom gets more assignments on a day than its max_daily_hours,
\* or than the slots of a day when its record has no max_daily_hours
C6_ClassroomDailyCap ==
    (Generator /\ Returned) =>
        \A c \in 0..num_classrooms - 1 : \A d \in 0..num_days - 1 :
            /\ Cardinality({v \in x : v[4] = c /\ v[5] \in daily_slots(d)})
                  <= DailyCap(classroom_list[c + 1])
            /\ Cardinality(PlacedOn(classroom_list[c + 1], d))
                  <= DailyCap(classroom_list[c + 1])

C6_Witness ==
    /\ Generator /\ Returned
    /\ num_days = 2
    /\ classrooms["R1"].max_daily_hours = 1
    /\ Cardinality(PlacedOn("R1", 0)) = 1
    /\ Cardinality(PlacedOn("R1", 1)) = 1
    /\ "R2" \in DOMAIN classrooms
    /\ "max_daily_hours" \notin DOMAIN classrooms["R2"]
    /\ Cardinality(PlacedOn("R2", 0)) = 1

\* the five conditions under which the prototype's input is rejected
RejectedInput ==
    \/ params.max_per_day > Len(params.slots)
    \/ params.max_per_week > Len(params.days) * Len(params.slots)
    \/ params.min_per_day > params.max_per_day
    \/ required_per_batch > params.max_per_week
    \/ required_per_batch * params.num_batches
          > params.num_rooms * Len(params.days) * Len(params.slots)

\* C7: solve_timetable signals a configuration error exactly for the inputs
\* that meet one of the five conditions, and builds the model for all others
C7_PreCheckDecision ==
    (Prototype /\ outcome # "pending") =>
        /\ (outcome = "ValueError") <=> RejectedInput
        /\ ~RejectedInput => (num_vars = Cardinality(PKeys) /\ num_vars > 0)

C7_Witness ==
    /\ Prototype
    /\ outcome = "ValueError"
    /\ params.max_per_day <= Len(params.slots)
    /\ params.max_per_week <= Len(params.days) * Len(params.slots)
    /\ params.min_per_day <= params.max_per_day
    /\ required_per_batch <= params.max_per_week
    /\ num_vars = 0

\* the pre-check conditions of the two entry points
p_PreCheckViolated ==
    \/ params.max_per_day > Len(params.slots)
    \/ params.min_per_day > params.max_per_day
    \/ required_per_batch * params.num_batches
          > params.num_rooms * Len(params.days) * Len(params.slots)

\* the weekly hours all batches require together
AggregateHours ==
    SeqSum([i \in 1..num_batches |->
              SeqSum([j \in 1..num_subjects |->
                        IF Requires(i - 1, j - 1)
                        THEN BatchOf(i - 1).subjects[SubjectOf(j - 1)].hours
                        ELSE 0])])

PreCheckViolated ==
    \/ max_hours_day_var > Len(slots)
    \/ min_hours_day_var > max_hours_day_var
    \/ AggregateHours > num_classrooms * total_slots

\* C8: a call whose inputs violate a pre-check condition fails with a
\* configuration error, creates no decision variable and never runs the solver
C8_PreCheckBeforeBuild ==
    /\ (Prototype /\ outcome # "pending" /\ p_PreCheckViolated) =>
          (outcome = "ValueError" /\ num_vars = 0 /\ solver_calls = 0)
    /\ (Generator /\ outcome # "pending" /\ PreCheckViolated) =>
          (outcome = "ValueError" /\ num_vars = 0 /\ solver_calls = 0)

\* a batch requires, for more than 0 hours, a subject no faculty member is
\* assigned to for that batch
UnstaffedSubject ==
    \E b_name \in DOMAIN batches : \E s_name \in DOMAIN batches[b_name].subjects :
        /\ batches[b_name].subjects[s_name].hours > 0
        /\ \A fac \in DOMAIN faculty :
              \/ s_name \notin DOMAIN faculty[fac].assignments
              \/ b_name \notin faculty[fac].assignments[s_name]

\* C9: with an unstaffed subject solve_timetable_model fails and returns no schedule
C9_UnstaffedSubject ==
    (Generator /\ outcome # "pending" /\ UnstaffedSubject) =>
        (outcome = "RuntimeError" /\ result = None)

C9_Witness ==
    /\ Generator
    /\ UnstaffedSubject
    /\ outcome = "RuntimeError"
    /\ status = "INFEASIBLE"
    /\ num_classrooms = 2

\* C10: a schedule is returned exactly when the engine answered OPTIMAL or
\* FEASIBLE; after any other answer the call raises and produces nothing
C10_StatusHandling ==
    (outcome # "pending") =>
        /\ Returned <=> status \in {"OPTIMAL", "FEASIBLE"}
        /\ Returned => result # None
        /\ (solver_calls > 0 /\ status \notin {"OPTIMAL", "FEASIBLE"}) =>
              (outcome = "RuntimeError" /\ result = None)

C10_Witness ==
    /\ Prototype
    /\ outcome = "RuntimeError"
    /\ status = "INFEASIBLE"
    /\ result = None

-----------------------------------------------------------------------------
(* What the caller receives from a failed solve. *)

\* _execute_solver_thread: except Exception as e: put {"status": "error", "message": str(e)}
ErrorItem(e) == [status |-> "error", message |-> e.message]

\* the item the GUI would receive had the engine answered st
ErrorItemAfter(st) ==
    ErrorItem(IF Generator THEN SolveFailure(st) ELSE p_SolveFailure(st))

\* C11: what the GUI receives after INFEASIBLE differs from what it receives
\* after UNKNOWN
C11_DistinctFailures ==
    (outcome = "RuntimeError" /\ status \in {"INFEASIBLE", "UNKNOWN"}) =>
        \A other \in {"INFEASIBLE", "UNKNOWN"} \ {status} :
            ErrorItem(error) # ErrorItemAfter(other)

-----------------------------------------------------------------------------
(* The decoding step on its own: any values of the assignment variables.   *)

\* the values handed to the decoding loops hold at most MaxTrue variables at 1
MaxTrue == 2

DecodeBatches == ("B1" :> Batch("S1" :> Subject(1, "Lecture") @@ "S2" :> Subject(1, "Lab")))
DecodeFaculty == ("F1" :> Faculty(TeachesAll) @@ "F2" :> Faculty(TeachesAll))
DecodeClassrooms ==
    ("R1" :> Classroom(1, "Lecture", 1) @@ "R2" :> [capacity |-> 1, type |-> "Lab"])
DecodeParams ==
    [subjects |-> << <<"Math", 1, 1>>, <<"Physics", 1, 1>> >>,
     num_batches |-> 1, num_rooms |-> 1, max_per_day |-> 2, max_per_week |-> 4,
     min_per_day |-> 0, days |-> PROTO_DAYS, slots |-> PROTO_SLOTS]

InitDecode ==
    /\ \/ /\ prog = "TimetableGenerator"
          /\ batches = DecodeBatches
          /\ faculty = DecodeFaculty
          /\ classrooms = DecodeClassrooms
          /\ params = None
       \/ /\ prog = "TT_prototype"
          /\ batches = EmptyMap
          /\ faculty = EmptyMap
          /\ classrooms = EmptyMap
          /\ params = DecodeParams
    /\ slots = DEFAULT_SLOTS
    /\ saturday_var = FALSE
    /\ weekdays = SubSeq(WEEK, 1, 1)
    /\ min_hours_day_var = 1
    /\ max_hours_day_var = 1
    /\ x \in {X \in SUBSET (IF prog = "TimetableGenerator" THEN XKeys ELSE PKeys) :
                Cardinality(X) <= MaxTrue}
    /\ outcome = "decoding"
    /\ status = "FEASIBLE"
    /\ num_vars = Cardinality(IF prog = "TimetableGenerator" THEN XKeys ELSE PKeys)
    /\ solver_calls = 1
    /\ result = None
    /\ error = None
    /\ GuiIdle

\* solve_timetable_model from the decoding loops to its return
DecodeValues ==
    /\ prog = "TimetableGenerator"
    /\ outcome = "decoding"
    /\ result' = [schedule |-> DecodeSchedule(x),
                  batch_list |-> batch_list,
                  workloads |-> Workloads(DecodeSchedule(x))]
    /\ outcome' = "returned"
    /\ UNCHANGED <<prog, appVars, guiVars, params, status, x, num_vars, solver_calls, error>>

\* solve_timetable from the decoding loops to its return
p_DecodeValues ==
    /\ prog = "TT_prototype"
    /\ outcome = "decoding"
    /\ result' = [schedule |-> p_DecodeSchedule(x),
                  room_assignments |-> p_RoomAssignments(x)]
    /\ outcome' = "returned"
    /\ UNCHANGED <<prog, appVars, guiVars, params, status, x, num_vars, solver_calls, error>>

NextDecode == DecodeValues \/ p_DecodeValues

SpecDecode == InitDecode /\ [][NextDecode]_vars

\* two or more assignment variables are 1 for one batch and timeslot
ConflictingValues ==
    \/ Generator /\ \E v \in x : \E w \in x : v # w /\ v[1] = w[1] /\ v[5] = w[5]
    \/ Prototype /\ \E v \in x : \E w \in x : v # w /\ v[1] = w[1] /\ v[3] = w[3]

-----------------------------------------------------------------------------
(* The indicators of the objective. *)

\* C13: in a satisfying assignment a penalty indicator is 1 exactly when its
\* condition holds: free day (both programs), long stretch and faculty
\* preference (solve_timetable_model)
C13_PenaltyIndicators ==
    /\ (Generator /\ Returned) =>
          /\ \A k \in FreeKeys : \A v \in is_free_values(x, k) :
                (v = 1) <=> (Cardinality(OccupiedOn(k[1], k[2])) = 0)
          /\ \A k \in LongKeys : \A v \in is_long_values(x, k) :
                (v = 1) <=> (\A i \in 0..MAX_CONSECUTIVE_CLASSES :
                                k[2] * num_slots_per_day + k[3] + i \in OccupiedOn(k[1], k[2]))
          /\ \A k \in PrefKeys : \A v \in has_class_values(x, k) :
                (v = 1) <=> (\E b \in Batches :
                                /\ result.schedule[b][k[2]] # None
                                /\ result.schedule[b][k[2]][2] = faculty_list[k[1] + 1])
    /\ (Prototype /\ Returned) =>
          \A k \in p_FreeKeys : \A v \in free_day_penalty_values(x, k) :
              (v = 1) <=> (Cardinality(p_OccupiedOn(k[1], k[2])) = 0)

\* C14: an adjacency indicator is 1 exactly when the batch is occupied in both
\* slots k and k+1 of the day, and both slots lie on the same day
C14_AdjacencyIndicators ==
    /\ (Generator /\ Returned) =>
          \A k \in AdjKeys : \A v \in adj_values(x, k) :
              LET t == k[2] * num_slots_per_day + k[3] IN
              /\ (v = 1) <=> (t \in OccupiedOn(k[1], k[2]) /\ t + 1 \in OccupiedOn(k[1], k[2]))
              /\ t \div num_slots_per_day = (t + 1) \div num_slots_per_day
    /\ (Prototype /\ Returned) =>
          \A k \in p_AdjKeys : \A v \in adj_var_values(x, k) :
              LET t == k[2] * p_num_slots_per_day + k[3] IN
              /\ (v = 1) <=> (t \in p_OccupiedOn(k[1], k[2]) /\ t + 1 \in p_OccupiedOn(k[1], k[2]))
              /\ t \div p_num_slots_per_day = (t + 1) \div p_num_slots_per_day

\* the values penalty_var has in an answer: an OPTIMAL answer holds its least
\* value, the objective falling with it; a FEASIBLE answer any allowed value
penalty_var_answers(st, X, key) ==
    IF st = "OPTIMAL"
    THEN {Least(penalty_var_values(X, key))}
    ELSE penalty_var_values(X, key)

\* what the objective is charged for (batch, subject, day): nothing when the
\* subject has no penalty term
same_day_charges(st, X, key) ==
    IF key \in SameDayKeys
    THEN {p_WEIGHT_PENALTY_SAME_DAY_SUBJECT * v : v \in penalty_var_answers(st, X, key)}
    ELSE {0}

\* max(0, n - 1) for the n slots of the day in which the batch has the subject
Excess(X, key) ==
    IF daily_subject_hours(X, key) > 1 THEN daily_subject_hours(X, key) - 1 ELSE 0

\* C15: for every batch, subject and day the objective of solve_timetable is
\* charged WEIGHT_PENALTY_SAME_DAY_SUBJECT * max(0, n - 1), in every accepted
\* solution
C15_SameDayPenalty ==
    (Prototype /\ Returned) =>
        \A key \in p_Batches \X (0..p_num_subjects - 1) \X (0..p_num_days - 1) :
            \A charge \in same_day_charges(status, x, key) :
                charge = p_WEIGHT_PENALTY_SAME_DAY_SUBJECT * Excess(x, key)

-----------------------------------------------------------------------------
(* The scenario of one batch and one subject of three weekly hours on the  *)
(* week of five days of six slots.                                         *)

SpreadScenario ==
    \/ /\ Generator
       /\ num_days = Len(WEEK) /\ slots = SIX_SLOTS
       /\ num_batches = 1 /\ num_faculty = 1 /\ num_classrooms = 1
       /\ \A s_name \in DOMAIN BatchOf(0).subjects :
             BatchOf(0).subjects[s_name].hours = MAX_CONSECUTIVE_CLASSES
       /\ max_hours_day_var = Len(SIX_SLOTS) /\ min_hours_day_var <= 1
    \/ /\ Prototype
       /\ params.days = WEEK /\ params.slots = SIX_SLOTS
       /\ params.num_batches = 1 /\ params.num_rooms = 1
       /\ p_num_subjects = 1 /\ params.subjects[1][2] = MAX_CONSECUTIVE_CLASSES
       /\ params.max_per_day = Len(SIX_SLOTS) /\ params.min_per_day <= 1

\* the days on which batch 0 has a class
DaysUsed ==
    IF Generator
    THEN {d \in 0..num_days - 1 : OccupiedOn(0, d) # {}}
    ELSE {d \in 0..p_num_days - 1 : p_OccupiedOn(0, d) # {}}

SlotsUsed ==
    IF Generator
    THEN {t \in Slots : result.schedule[0][t] # None}
    ELSE {t \in p_Slots : result.schedule[0][t] # "Free"}

\* C16: every optimal solution of the scenario has exactly 3 occupied slots
\* and does not place all of them on one day
C16_SpreadScenario ==
    (SpreadScenario /\ Returned /\ status = "OPTIMAL") =>
        (Cardinality(SlotsUsed) = 3 /\ Cardinality(DaysUsed) > 1)

-----------------------------------------------------------------------------
(* The window of TimetableGenerator.py.  A handler is one action; its      *)
(* selections and entry fields are inputs.  A handler that shows an error  *)
(* box and returns changes nothing: its guard is the condition under which *)
(* it goes on.  Confirmation boxes are answered yes.                       *)

EditBatchNames == {"B1", "B2"}
EditSubjectNames == {"S1", "S2"}
EditFacultyNames == {"F1"}

\* del f[k]
Without(f, k) == IF DOMAIN f \subseteq {k} THEN EmptyMap ELSE [j \in DOMAIN f \ {k} |-> f[j]]

\* f[k] = v
With(f, k, v) == (k :> v) @@ f

\* TimetableApp.__init__: empty registries, the default grid and parameters
InitApp ==
    /\ prog = "TimetableGenerator"
    /\ batches = EmptyMap
    /\ faculty = EmptyMap
    /\ classrooms = EmptyMap
    /\ slots = DEFAULT_SLOTS
    /\ saturday_var = FALSE
    /\ weekdays = SubSeq(WEEK, 1, 1)
    /\ min_hours_day_var = 1
    /\ max_hours_day_var = Len(DEFAULT_SLOTS)
    /\ params = None
    /\ outcome = "idle"
    /\ status = "none"
    /\ x = {}
    /\ num_vars = 0
    /\ solver_calls = 0
    /\ result = None
    /\ error = None
    /\ GuiIdle

\* what the handlers of the Batches and Faculty tabs leave alone
editFrame == <<prog, classrooms, slots, saturday_var, weekdays, min_hours_day_var,
               max_hours_day_var, guiVars, params, callVars>>

\* what update_batch leaves alone: update_all_views ends in the three
\* on_*_select handlers with nothing selected
editRest == <<prog, classrooms, slots, saturday_var, weekdays, min_hours_day_var,
              max_hours_day_var, class_max_daily_hours_var, runVars, subj_tree, poolVars,
              params, callVars>>

AllDisabled == [batch |-> "disabled", faculty |-> "disabled", classroom |-> "disabled"]

add_batch(name) ==
    /\ name # ""
    /\ name \notin DOMAIN batches
    /\ batches' = With(batches, name, Batch(EmptyMap))
    /\ UNCHANGED <<faculty, editFrame>>

\* loops that leave every assignment set as it is
OverAssignmentsSkipped(old, new) == faculty

\* the loops over fac_data["assignments"]: old leaves every set it is in and
\* the names of new enter that set
OverAssignments(old, new) ==
    IF DOMAIN faculty = {} THEN faculty
    ELSE [f \in DOMAIN faculty |->
            IF DOMAIN faculty[f].assignments = {} THEN faculty[f]
            ELSE [faculty[f] EXCEPT !.assignments =
                    [s \in DOMAIN @ |-> IF old \in @[s] THEN (@[s] \ {old}) \cup new ELSE @[s]]]]

remove_batch(batch_name) ==
    /\ batch_name \in DOMAIN batches
    /\ batches' = Without(batches, batch_name)
    /\ faculty' = OverAssignments(batch_name, {})
    /\ UNCHANGED editFrame

\* old_name is the row the double-click put in selected_item_for_edit
update_batch(old_name, new_name) ==
    /\ old_name \in DOMAIN batches
    /\ ~(old_name # new_name /\ new_name \in DOMAIN batches)
    /\ batches' = With(Without(batches, old_name), new_name, batches[old_name])
    /\ faculty' = IF old_name # new_name THEN OverAssignments(old_name, {new_name}) ELSE faculty
    /\ selected_item_for_edit' = None
    /\ update_buttons' = AllDisabled
    /\ UNCHANGED editRest

add_subject(batch_name, subj_name, h, ty) ==
    /\ batch_name \in DOMAIN batches
    /\ subj_name # ""
    /\ subj_name \notin DOMAIN batches[batch_name].subjects
    /\ batches' = [batches EXCEPT ![batch_name].subjects = With(@, subj_name, Subject(h, ty))]
    /\ UNCHANGED <<faculty, editFrame>>

update_subject(batch_name, old_subj_name, new_subj_name, h, ty) ==
    /\ batch_name \in DOMAIN batches
    /\ old_subj_name \in DOMAIN batches[batch_name].subjects
    /\ new_subj_name # ""
    /\ ~(old_subj_name # new_subj_name /\ new_subj_name \in DOMAIN batches[batch_name].subjects)
    /\ batches' = [batches EXCEPT ![batch_name].subjects =
                     With(Without(@, old_subj_name), new_subj_name, Subject(h, ty))]
    /\ UNCHANGED <<faculty, editFrame>>

remove_subject(batch_name, subj_name) ==
    /\ batch_name \in DOMAIN batches
    /\ subj_name \in DOMAIN batches[batch_name].subjects
    /\ batches' = [batches EXCEPT ![batch_name].subjects = Without(@, subj_name)]
    /\ UNCHANGED <<faculty, editFrame>>

add_faculty(name) ==
    /\ name \notin DOMAIN faculty
    /\ faculty' = With(faculty, name, [assignments |-> EmptyMap, preferences |-> EmptyMap])
    /\ UNCHANGED <<batches, editFrame>>

\* the values of the dialog's combo box
AssignableSubjects == UNION {DOMAIN batches[b].subjects : b \in DOMAIN batches}

\* add_assignment and the Add button of its dialog (on_add)
add_assignment(fac_name, subj_name) ==
    /\ fac_name \in DOMAIN faculty
    /\ subj_name \in AssignableSubjects
    /\ subj_name \notin DOMAIN faculty[fac_name].assignments
    /\ faculty' = [faculty EXCEPT ![fac_name].assignments = With(@, subj_name, {})]
    /\ UNCHANGED <<batches, editFrame>>

remove_assignment(fac_name, subj_name) ==
    /\ fac_name \in DOMAIN faculty
    /\ subj_name \in DOMAIN faculty[fac_name].assignments
    /\ faculty' = [faculty EXCEPT ![fac_name].assignments = Without(@, subj_name)]
    /\ UNCHANGED <<batches, editFrame>>

\* a row of the dialog's list box, f"{name} ({year}, {branch})", as its words
\* between spaces; a batch name is one word
all_batches_formatted(name) == <<name, "(N/A,", "N/A)">>

\* edit_assignment and the Save button of its dialog: the rows are all the
\* batches, selected any of them
save_assignment_changes(fac_name, subj_name, selected) ==
    /\ fac_name \in DOMAIN faculty
    /\ subj_name \in DOMAIN faculty[fac_name].assignments
    /\ selected \subseteq DOMAIN batches
    /\ LET newly_assigned_batches == {all_batches_formatted(b)[1] : b \in selected}
       IN  faculty' = [faculty EXCEPT ![fac_name].assignments =
                         With(Without(@, subj_name), subj_name, newly_assigned_batches)]
    /\ UNCHANGED <<batches, editFrame>>

NextEdit ==
    \/ \E name \in EditBatchNames : add_batch(name)
    \/ \E name \in EditBatchNames : remove_batch(name)
    \/ \E old \in EditBatchNames, new \in EditBatchNames : update_batch(old, new)
    \/ \E b \in EditBatchNames, s \in EditSubjectNames, h \in 1..MaxHours, ty \in Types :
          add_subject(b, s, h, ty)
    \/ \E b \in EditBatchNames, old \in EditSubjectNames, new \in EditSubjectNames,
          h \in 1..MaxHours, ty \in Types : update_subject(b, old, new, h, ty)
    \/ \E b \in EditBatchNames, s \in EditSubjectNames : remove_subject(b, s)
    \/ \E name \in EditFacultyNames : add_faculty(name)
    \/ \E f \in EditFacultyNames, s \in EditSubjectNames : add_assignment(f, s)
    \/ \E f \in EditFacultyNames, s \in EditSubjectNames : remove_assignment(f, s)
    \/ \E f \in EditFacultyNames, s \in EditSubjectNames, sel \in SUBSET EditBatchNames :
          save_assignment_changes(f, s, sel)

SpecEdit == InitApp /\ [][NextEdit]_vars

\* C19: after any sequence of the editing operations, every batch named in a
\* faculty member's assignment set for a subject is a key of batches and has
\* that subject in its subject map
C19_AssignmentIntegrity ==
    \A f \in DOMAIN faculty : \A s \in DOMAIN faculty[f].assignments :
        \A b \in faculty[f].assignments[s] :
            /\ b \in DOMAIN batches
            /\ s \in DOMAIN batches[b].subjects

-----------------------------------------------------------------------------
(* The Classrooms tab and the slot settings of the Configuration tab.      *)

EditClassroomNames == {"R1", "R2"}

\* the hours the Start, End and Lunch spin boxes are moved over
Hours == 9..12

\* what these handlers leave alone
slotFrame == <<prog, batches, faculty, saturday_var, weekdays, min_hours_day_var, params,
               callVars, runVars, formVars, poolVars>>

\* what the handlers of the Classrooms tab that touch the edit target leave alone
slotRest == <<prog, batches, faculty, saturday_var, weekdays, min_hours_day_var, params,
              callVars, runVars, subj_tree, poolVars>>

\* [f"{hour}-{hour+1}" for hour in range(start, end) if hour != lunch]
RECURSIVE new_slots(_, _, _)
new_slots(start, end, lunch) ==
    IF start >= end THEN <<>>
    ELSE (IF start = lunch THEN <<>> ELSE << <<start, start + 1>> >>)
         \o new_slots(start + 1, end, lunch)

\* the upper end _update_slot_dependent_widgets gives the spin boxes
SpinboxTo(the_slots) == IF Len(the_slots) = 0 THEN 1 ELSE Len(the_slots)

\* update_slots with _update_slot_dependent_widgets: the two entry values
\* are clamped, the stored classrooms are not visited
update_slots(start, end, lunch) ==
    /\ ~(start >= end)
    /\ slots' = new_slots(start, end, lunch)
    /\ max_hours_day_var' =
          IF max_hours_day_var > SpinboxTo(slots') THEN SpinboxTo(slots') ELSE max_hours_day_var
    /\ class_max_daily_hours_var' =
          IF class_max_daily_hours_var > SpinboxTo(slots') THEN SpinboxTo(slots')
          ELSE class_max_daily_hours_var
    /\ UNCHANGED <<classrooms, slotFrame>>

\* the arrows of the Max Daily Hours spin box, from 1 to its upper end
SetClassMaxDailyHours(v) ==
    /\ v \in 1..SpinboxTo(slots)
    /\ class_max_daily_hours_var' = v
    /\ UNCHANGED <<classrooms, slots, max_hours_day_var, slotFrame>>

\* the arrows of the Max Hours/Day spin box, from 1 to its upper end
SetMaxHoursDay(v) ==
    /\ v \in 1..SpinboxTo(slots)
    /\ max_hours_day_var' = v
    /\ UNCHANGED <<classrooms, slots, class_max_daily_hours_var, slotFrame>>

on_classroom_double_click(item_id) ==
    /\ item_id \in DOMAIN classrooms
    /\ class_max_daily_hours_var' =
          IF "max_daily_hours" \in DOMAIN classrooms[item_id]
          THEN classrooms[item_id].max_daily_hours ELSE Len(slots)
    /\ selected_item_for_edit' = <<item_id>>
    /\ update_buttons' = [update_buttons EXCEPT !.classroom = "normal"]
    /\ UNCHANGED <<classrooms, slots, max_hours_day_var, slotRest>>

add_classroom(name, cap, ty) ==
    /\ name \notin DOMAIN classrooms
    /\ classrooms' = With(classrooms, name, Classroom(cap, ty, class_max_daily_hours_var))
    /\ selected_item_for_edit' = None
    /\ update_buttons' = [update_buttons EXCEPT !.classroom = "disabled"]
    /\ UNCHANGED <<slots, max_hours_day_var, class_max_daily_hours_var, slotRest>>

\* old_name is the row the double-click put in selected_item_for_edit
update_classroom(old_name, new_name, cap, ty) ==
    /\ old_name \in DOMAIN classrooms
    /\ ~(old_name # new_name /\ new_name \in DOMAIN classrooms)
    /\ classrooms' = With(Without(classrooms, old_name), new_name,
                          Classroom(cap, ty, class_max_daily_hours_var))
    /\ selected_item_for_edit' = None
    /\ update_buttons' = [update_buttons EXCEPT !.classroom = "disabled"]
    /\ UNCHANGED <<slots, max_hours_day_var, class_max_daily_hours_var, slotRest>>

NextSlots ==
    \/ \E start \in Hours, end \in Hours, lunch \in Hours : update_slots(start, end, lunch)
    \/ \E v \in 1..Cardinality(Hours) : SetClassMaxDailyHours(v)
    \/ \E v \in 1..Cardinality(Hours) : SetMaxHoursDay(v)
    \/ \E c \in EditClassroomNames : on_classroom_double_click(c)
    \/ \E c \in EditClassroomNames, cap \in 1..MaxCapacity, ty \in Types :
          add_classroom(c, cap, ty)
    \/ \E old \in EditClassroomNames, new \in EditClassroomNames,
          cap \in 1..MaxCapacity, ty \in Types : update_classroom(old, new, cap, ty)

SpecSlots == InitApp /\ [][NextSlots]_vars

\* C20: after any sequence of add_classroom, update_classroom and
\* update_slots, every stored classroom's max_daily_hours is at most the
\* number of slots per day, and so is the Max Hours/Day parameter
C20_ReClamping ==
    /\ \A c \in DOMAIN classrooms : classrooms[c].max_daily_hours <= Len(slots)
    /\ max_hours_day_var <= Len(slots)

-----------------------------------------------------------------------------
(* Generating, showing and exporting a timetable in TimetableGenerator.py. *)
(* The solver thread and the window's handlers interleave: the thread      *)
(* reads self.batches, self.faculty, self.classrooms, self.slots and the   *)
(* check box when it builds the model, here at one instant of its run.     *)

\* how many times Generate is pressed
MaxRuns == 1

\* a small configuration as the editing handlers or load_config leave it
InitRun ==
    /\ prog = "TimetableGenerator"
    /\ batches = ("B1" :> Batch("S1" :> Subject(1, "Lecture")))
    /\ faculty = ("F1" :> [assignments |-> ("S1" :> {"B1"}), preferences |-> EmptyMap])
    /\ classrooms = ("R1" :> Classroom(1, "Lecture", Len(DEFAULT_SLOTS)))
    /\ slots = DEFAULT_SLOTS
    /\ saturday_var = FALSE
    /\ weekdays = SubSeq(WEEK, 1, 1)
    /\ min_hours_day_var \in {0, 1}
    /\ max_hours_day_var = Len(DEFAULT_SLOTS)
    /\ params = None
    /\ outcome = "idle"
    /\ status = "none"
    /\ x = {}
    /\ num_vars = 0
    /\ solver_calls = 0
    /\ result = None
    /\ error = None
    /\ GuiIdle

\* what the thread and the handlers of the result leave alone
runFrame == <<prog, appVars, class_max_daily_hours_var, formVars, poolVars, params,
              outcome, status, x, num_vars, result, error>>

\* generate_timetable: starts the thread; one solve at a time here
generate_timetable ==
    /\ worker = None
    /\ solver_queue = <<>>
    /\ solver_calls < MaxRuns
    /\ worker' = [pc |-> "solve"]
    /\ UNCHANGED <<runFrame, solver_calls, solver_queue, last_schedule_data, built_with,
                   export_buttons, shown>>

\* _execute_solver_thread up to the return or the exception of
\* solve_timetable_model; days and slots are the lists the model was built on
execute_solver_thread ==
    /\ worker # None
    /\ worker.pc = "solve"
    /\ \E a \in SolverAnswers([X \in Solutions(XOrder, TimetableModel) |-> Objective(X)]) :
          worker' = [pc |-> "put",
                     message |->
                        IF a.status \in AcceptedStatuses
                        THEN [status |-> "success",
                              data |-> [schedule |-> DecodeSchedule(a.values),
                                        batch_list |-> batch_list,
                                        workloads |-> Workloads(DecodeSchedule(a.values))]]
                        ELSE [status |-> "error", message |-> SolveFailure(a.status).message],
                     days |-> days,
                     slots |-> slots]
    /\ solver_calls' = solver_calls + 1
    /\ UNCHANGED <<runFrame, solver_queue, last_schedule_data, built_with, export_buttons, shown>>

\* self.solver_queue.put(...), the end of the thread; the lists of the solve
\* travel next to the message, which has no such entries in the code
solver_queue_put ==
    /\ worker # None
    /\ worker.pc = "put"
    /\ solver_queue' = Append(solver_queue, [message |-> worker.message,
                                             days |-> worker.days,
                                             slots |-> worker.slots])
    /\ worker' = None
    /\ UNCHANGED <<runFrame, solver_calls, last_schedule_data, built_with, export_buttons, shown>>

\* the length of a batch's row of the schedule
RowLength(data) ==
    IF Len(data.batch_list) = 0 THEN 0 ELSE Cardinality(DOMAIN data.schedule[0])

\* range(len(days) * len(self.slots)) runs past a row: IndexError
ReadsPastRow(data) == Len(data.batch_list) > 0 /\ Len(days) * Len(slots) > RowLength(data)

\* the indices t at which schedule[batch_idx][t] is evaluated
IndicesRead(data) ==
    IF Len(data.batch_list) = 0 THEN {}
    ELSE IF ReadsPastRow(data) THEN 0..RowLength(data)
    ELSE 0..Len(days) * Len(slots) - 1

\* the label of index t in the lists the window has now
LabelNow(t) == <<days[(t \div Len(slots)) + 1], slots[(t % Len(slots)) + 1]>>

\* display_timetable_results and export_full_timetable_csv: a column per
\* day and slot of the window's lists, then the cells of every row
GridRead(op, data, grid) ==
    [op |-> op,
     columns |-> [t \in 0..Len(days) * Len(slots) - 1 |-> LabelNow(t)],
     reads |-> IndicesRead(data),
     raised |-> ReadsPastRow(data),
     days |-> grid.days,
     slots |-> grid.slots]

\* export_faculty_schedules_csv: a line with day and slot for each cell
\* found whose faculty member is in self.faculty, none if a read fails
FacultyRead(data, grid) ==
    [op |-> "export_faculty",
     columns |->
        [t \in {u \in IndicesRead(data) :
                  /\ ~ReadsPastRow(data)
                  /\ \E b \in DOMAIN data.schedule :
                        /\ data.schedule[b][u] # None
                        /\ data.schedule[b][u][2] \in DOMAIN faculty} |-> LabelNow(t)],
     reads |-> IndicesRead(data),
     raised |-> ReadsPastRow(data),
     days |-> grid.days,
     slots |-> grid.slots]

\* _process_solver_queue when a message is there: an error disables the
\* export buttons, a success is stored and displayed; the buttons are
\* enabled after the display unless it raised
process_solver_queue ==
    /\ solver_queue # <<>>
    /\ LET got == Head(solver_queue) IN
       IF got.message.status = "error"
       THEN /\ export_buttons' = "disabled"
            /\ UNCHANGED <<last_schedule_data, built_with, shown>>
       ELSE /\ last_schedule_data' = got.message.data
            /\ built_with' = [days |-> got.days, slots |-> got.slots]
            /\ shown' = GridRead("display", got.message.data, built_with')
            /\ export_buttons' = IF shown'.raised THEN export_buttons ELSE "normal"
    /\ solver_queue' = Tail(solver_queue)
    /\ UNCHANGED <<runFrame, solver_calls, worker>>

export_full_timetable_csv ==
    /\ export_buttons = "normal"
    /\ last_schedule_data # None
    /\ shown' = GridRead("export_full", last_schedule_data, built_with)
    /\ UNCHANGED <<runFrame, solver_calls, worker, solver_queue, last_schedule_data,
                   built_with, export_buttons>>

export_faculty_schedules_csv ==
    /\ export_buttons = "normal"
    /\ last_schedule_data # None
    /\ shown' = FacultyRead(last_schedule_data, built_with)
    /\ UNCHANGED <<runFrame, solver_calls, worker, solver_queue, last_schedule_data,
                   built_with, export_buttons>>

\* the Include Saturday check box
ToggleSaturday ==
    /\ saturday_var' = ~saturday_var
    /\ UNCHANGED <<prog, batches, faculty, classrooms, slots, weekdays, min_hours_day_var,
                   max_hours_day_var, guiVars, params, callVars>>

NextRun ==
    \/ generate_timetable
    \/ execute_solver_thread
    \/ solver_queue_put
    \/ process_solver_queue
    \/ export_full_timetable_csv
    \/ export_faculty_schedules_csv
    \/ ToggleSaturday
    \/ \E start \in {9, 10}, end \in {10, 11} : update_slots(start, end, 12)
    \/ add_subject("B1", "S1", 1, "Lecture")
    \/ remove_subject("B1", "S1")

SpecRun == InitRun /\ [][NextRun]_vars

\* the solver thread is between its start and its put on solver_queue
InFlight == worker # None

\* C17: from the start of the solver thread until its result is on
\* solver_queue, no operation of the window changes the batches, faculty,
\* classrooms, days or slots the solve reads
C17_FrozenSnapshot ==
    [][(InFlight /\ InFlight') =>
            UNCHANGED <<batches, faculty, classrooms, slots, saturday_var>>]_vars

\* C18: whenever a schedule is displayed or exported, the cell at index t is
\* labelled with day t div slots_per_day and slot t mod slots_per_day of the
\* day and slot lists its model was built on, and every index read lies
\* inside the schedule
C18_TimeslotMapping ==
    shown # None =>
        LET n == Len(shown.slots)
            total == Len(shown.days) * n
        IN  /\ shown.reads \subseteq 0..total - 1
            /\ \A t \in DOMAIN shown.columns :
                  /\ t < total
                  /\ shown.columns[t] = <<shown.days[(t \div n) + 1], shown.slots[(t % n) + 1]>>

-----------------------------------------------------------------------------
(* The feasibility checks of solve_timetable against the model it builds. *)

\* C21: for every input the pre-checks of solve_timetable reject, the
\* constraint model built from the same input has no satisfying assignment
C21_PreCheckRoundTrip ==
    (prog = "TT_prototype" /\ outcome = "ValueError") =>
        Solutions(POrder, PrototypeModel) = {}

-----------------------------------------------------------------------------
(* The workloads of solve_timetable_model. *)

\* the (batch, timeslot) pairs with a true assignment variable of f_name
PairsOf(f_name) ==
    {<<v[1], v[5]>> : v \in {w \in x : faculty_list[w[3] + 1] = f_name}}

\* the weekly hours the subjects of all batches ask for
TotalRequiredHours ==
    SeqSum([i \in 1..num_batches |->
        LET subjects == batches[batch_list[i]].subjects
            names == Sorted(DOMAIN subjects)
        IN  SeqSum([j \in 1..Len(names) |-> subjects[names[j]].hours])])

\* C22: workloads has one entry for every faculty member of the input, each
\* the number of (batch, timeslot) pairs whose true assignment variable
\* involves that member, and the entries add up to the required weekly hours
\* of all batches and subjects
C22_WorkloadAnalytics ==
    (Generator /\ Returned) =>
        /\ DOMAIN result.workloads = DOMAIN faculty
        /\ \A f \in DOMAIN faculty : result.workloads[f] = Cardinality(PairsOf(f))
        /\ SeqSum([i \in 1..num_faculty |-> result.workloads[faculty_list[i]]])
              = TotalRequiredHours

\* a returned timetable in which two faculty members teach, one of them in
\* two cells at least
C22_Witness ==
    /\ Generator
    /\ Returned
    /\ \E f \in DOMAIN faculty, g \in DOMAIN faculty :
          /\ f # g
          /\ result.workloads[f] >= 2
          /\ result.workloads[g] >= 1

-----------------------------------------------------------------------------
(* The subject forms of the two windows.  The name entry holds any text    *)
(* and the hours entry any integer; text that is no integer makes the      *)
(* handler stop before it stores anything.                                 *)

\* what is typed into a name entry
EntryTexts == {"", " ", "Math", "Physics"}

\* str.strip() on these texts
strip(text) == IF text = " " THEN "" ELSE text

\* the integers typed into an hours or faculty-count entry
NumberInputs == -1..MaxHours

\* the subject list holds up to MaxRows rows
MaxRows == 3

\* DEFAULT_SUBJECTS, its first two rows
p_DEFAULT_SUBJECTS == << <<"Math", 3, 2>>, <<"Physics", 4, 2>> >>

\* the window of TT_prototype.py after __init__
InitProtoApp ==
    /\ prog = "TT_prototype"
    /\ batches = EmptyMap
    /\ faculty = EmptyMap
    /\ classrooms = EmptyMap
    /\ slots = DEFAULT_SLOTS
    /\ saturday_var = FALSE
    /\ weekdays = SubSeq(WEEK, 1, 1)
    /\ min_hours_day_var = 1
    /\ max_hours_day_var = 1
    /\ params = None
    /\ outcome = "idle"
    /\ status = "none"
    /\ x = {}
    /\ num_vars = 0
    /\ solver_calls = 0
    /\ result = None
    /\ error = None
    /\ class_max_daily_hours_var = Len(slots)
    /\ worker = None
    /\ solver_queue = <<>>
    /\ last_schedule_data = None
    /\ built_with = None
    /\ export_buttons = "disabled"
    /\ shown = None
    /\ subj_tree = p_DEFAULT_SUBJECTS
    /\ selected_item_for_edit = None
    /\ update_buttons = [batch |-> "disabled", faculty |-> "disabled", classroom |-> "disabled"]
    /\ threads = <<>>
    /\ pollers = <<>>

\* what the subject handlers of TT_prototype.py leave alone
treeFrame == <<prog, appVars, class_max_daily_hours_var, runVars, selected_item_for_edit,
               update_buttons, poolVars, params, callVars>>

\* TT_prototype add_subject
p_add_subject(text, hours, faculty_count) ==
    /\ prog = "TT_prototype"
    /\ Len(subj_tree) < MaxRows
    /\ strip(text) # ""
    /\ ~(hours <= 0 \/ faculty_count <= 0)
    /\ subj_tree' = Append(subj_tree, <<strip(text), hours, faculty_count>>)
    /\ UNCHANGED treeFrame

\* TT_prototype edit_subject on the selected row
p_edit_subject(iid, text, hours, faculty_count) ==
    /\ prog = "TT_prototype"
    /\ iid \in DOMAIN subj_tree
    /\ strip(text) # ""
    /\ ~(hours <= 0 \/ faculty_count <= 0)
    /\ subj_tree' = [subj_tree EXCEPT ![iid] = <<strip(text), hours, faculty_count>>]
    /\ UNCHANGED treeFrame

\* TT_prototype remove_subject on the selected rows
p_remove_subject(sel) ==
    /\ prog = "TT_prototype"
    /\ sel # {}
    /\ sel \subseteq DOMAIN subj_tree
    /\ LET kept == SelectSeq([i \in DOMAIN subj_tree |-> i], LAMBDA i : i \notin sel)
       IN  subj_tree' = [k \in 1..Len(kept) |-> subj_tree[kept[k]]]
    /\ UNCHANGED treeFrame

\* TT_prototype reset_defaults
reset_defaults ==
    /\ prog = "TT_prototype"
    /\ subj_tree' = p_DEFAULT_SUBJECTS
    /\ UNCHANGED treeFrame

NextSubjects ==
    \/ prog = "TimetableGenerator" /\ add_batch("B1")
    \/ \E text \in EntryTexts, h \in NumberInputs, ty \in Types :
          prog = "TimetableGenerator" /\ add_subject("B1", strip(text), h, ty)
    \/ \E old \in EntryTexts, text \in EntryTexts, h \in NumberInputs, ty \in Types :
          prog = "TimetableGenerator" /\ update_subject("B1", old, strip(text), h, ty)
    \/ \E s \in EntryTexts : prog = "TimetableGenerator" /\ remove_subject("B1", s)
    \/ \E text \in EntryTexts, h \in NumberInputs, f \in NumberInputs : p_add_subject(text, h, f)
    \/ \E i \in 1..MaxRows, text \in EntryTexts, h \in NumberInputs, f \in NumberInputs :
          p_edit_subject(i, text, h, f)
    \/ \E sel \in SUBSET (1..MaxRows) : p_remove_subject(sel)
    \/ reset_defaults

InitSubjects == InitApp \/ InitProtoApp

SpecSubjects == InitSubjects /\ [][NextSubjects]_vars

\* C23 for TimetableGenerator: names are keys of the batch's subject map
GeneratorSubjectsValid ==
    \A b \in DOMAIN batches : \A s \in DOMAIN batches[b].subjects :
        /\ s # ""
        /\ batches[b].subjects[s].hours > 0

\* C23 for TT_prototype
PrototypeSubjectsValid ==
    \A i \in DOMAIN subj_tree :
        /\ subj_tree[i][1] # ""
        /\ subj_tree[i][2] > 0
        /\ \A j \in DOMAIN subj_tree : i # j => subj_tree[i][1] # subj_tree[j][1]

\* C23: after any sequence of subject add, update and remove operations in
\* either window every stored subject has a non-empty name that is unique
\* within its batch and weekly hours greater than 0
C23_SubjectInvariant == GeneratorSubjectsValid /\ PrototypeSubjectsValid

-----------------------------------------------------------------------------
(* The weekly cap and the room numbers of solve_timetable. *)

\* the occupied timeslots of batch b in the returned schedule
p_OccupiedInWeek(b) == {t \in p_Slots : result.schedule[b][t] # "Free"}

\* C24: in every schedule solve_timetable returns, every batch is occupied in
\* at most max_per_week slots of the week
C24_BatchWeeklyCap ==
    (Prototype /\ Returned) =>
        \A b \in p_Batches : Cardinality(p_OccupiedInWeek(b)) <= params.max_per_week

\* a returned schedule that fills a batch's week up to a cap below the
\* number of slots
C24_Witness ==
    /\ Prototype
    /\ Returned
    /\ params.max_per_week < p_total_slots
    /\ \E b \in p_Batches : Cardinality(p_OccupiedInWeek(b)) = params.max_per_week

\* the batches occupied at timeslot t of the returned schedule
p_OccupiedAt(t) == {b \in p_Batches : result.schedule[b][t] # "Free"}

\* C30: in the returned room_assignments, for every timeslot each occupied
\* batch appears exactly once, the room numbers of the slot are pairwise
\* distinct and lie in 1..num_rooms, and free batches do not appear
C30_RoomNumbering ==
    (Prototype /\ Returned) =>
        \A t \in p_Slots :
            LET assigns == result.room_assignments[t] IN
            /\ {assigns[i][2] : i \in DOMAIN assigns} = p_OccupiedAt(t)
            /\ Len(assigns) = Cardinality(p_OccupiedAt(t))
            /\ \A i \in DOMAIN assigns : \A j \in DOMAIN assigns :
                  i # j => assigns[i][1] # assigns[j][1]
            /\ \A i \in DOMAIN assigns : assigns[i][1] \in 1..params.num_rooms

\* a returned timetable with two batches in two rooms in one timeslot and a
\* free batch in another
C30_Witness ==
    /\ Prototype
    /\ Returned
    /\ \E t \in p_Slots : Len(result.room_assignments[t]) = 2
    /\ \E t \in p_Slots : \E b \in p_Batches :
          /\ b \notin p_OccupiedAt(t)
          /\ p_OccupiedAt(t) # {}

-----------------------------------------------------------------------------
(* What remove_batch and update_batch do to the faculty assignments. *)

\* the faculty members and their assigned subjects are the same after a step
SameAssignmentKeys ==
    /\ DOMAIN faculty' = DOMAIN faculty
    /\ \A f \in DOMAIN faculty : DOMAIN faculty'[f].assignments = DOMAIN faculty[f].assignments

\* the pairs (faculty member, subject) that have an assignment set
AssignmentSets == {p \in (DOMAIN faculty) \X EditSubjectNames : p[2] \in DOMAIN faculty[p[1]].assignments}

\* a step keeps the data of the batches and the membership in every
\* assignment set of the batches outside gone
OthersUntouched(gone) ==
    /\ \A c \in DOMAIN batches \ gone : c \in DOMAIN batches' /\ batches'[c] = batches[c]
    /\ \A p \in AssignmentSets : \A c \in EditBatchNames \ gone :
          c \in faculty[p[1]].assignments[p[2]] <=> c \in faculty'[p[1]].assignments[p[2]]

\* after remove_batch(b) no assignment set contains b
RemovalPropagates(b) ==
    /\ b \notin DOMAIN batches'
    /\ SameAssignmentKeys
    /\ \A p \in AssignmentSets : b \notin faculty'[p[1]].assignments[p[2]]
    /\ OthersUntouched({b})

\* after update_batch renames old to new, the sets that contained old contain
\* new and not old
RenamePropagates(old, new) ==
    /\ old \notin DOMAIN batches'
    /\ new \in DOMAIN batches'
    /\ batches'[new] = batches[old]
    /\ SameAssignmentKeys
    /\ \A p \in AssignmentSets :
          /\ old \notin faculty'[p[1]].assignments[p[2]]
          /\ old \in faculty[p[1]].assignments[p[2]] => new \in faculty'[p[1]].assignments[p[2]]
    /\ OthersUntouched({old, new})

-----------------------------------------------------------------------------
(* The edit target of TimetableGenerator.py: the three lists share         *)
(* self.selected_item_for_edit, None or the row of the last double-click,  *)
(* held here as <<iid>>; every list has its own Update Selected button.    *)

SelectBatchNames == {"B1", "B2"}
SelectFacultyNames == {"F1", "F2"}
SelectClassroomNames == {"R1", "R2"}

\* the registries as load_config leaves them, nothing selected
InitSelect ==
    /\ prog = "TimetableGenerator"
    /\ batches = ("B1" :> Batch(EmptyMap))
    /\ faculty = ("F1" :> [assignments |-> EmptyMap, preferences |-> EmptyMap])
    /\ classrooms = ("R1" :> Classroom(1, "Lecture", Len(DEFAULT_SLOTS)))
    /\ slots = DEFAULT_SLOTS
    /\ saturday_var = FALSE
    /\ weekdays = SubSeq(WEEK, 1, 1)
    /\ min_hours_day_var = 1
    /\ max_hours_day_var = Len(DEFAULT_SLOTS)
    /\ params = None
    /\ outcome = "idle"
    /\ status = "none"
    /\ x = {}
    /\ num_vars = 0
    /\ solver_calls = 0
    /\ result = None
    /\ error = None
    /\ GuiIdle

\* what a selection or a double-click in the Batches or Faculty list leaves alone
selectFrame == <<prog, appVars, class_max_daily_hours_var, runVars, subj_tree, poolVars,
                 params, callVars>>

ButtonState(has_selection) == IF has_selection THEN "normal" ELSE "disabled"

on_batch_select(has_selection) ==
    /\ has_selection => DOMAIN batches # {}
    /\ update_buttons' = [update_buttons EXCEPT !.batch = ButtonState(has_selection)]
    /\ selected_item_for_edit' = None
    /\ UNCHANGED selectFrame

on_faculty_select(has_selection) ==
    /\ has_selection => DOMAIN faculty # {}
    /\ update_buttons' = [update_buttons EXCEPT !.faculty = ButtonState(has_selection)]
    /\ selected_item_for_edit' = None
    /\ UNCHANGED selectFrame

on_classroom_select(has_selection) ==
    /\ has_selection => DOMAIN classrooms # {}
    /\ update_buttons' = [update_buttons EXCEPT !.classroom = ButtonState(has_selection)]
    /\ selected_item_for_edit' = None
    /\ UNCHANGED selectFrame

on_batch_double_click(item_id) ==
    /\ item_id \in DOMAIN batches
    /\ selected_item_for_edit' = <<item_id>>
    /\ update_buttons' = [update_buttons EXCEPT !.batch = "normal"]
    /\ UNCHANGED selectFrame

on_faculty_double_click(item_id) ==
    /\ item_id \in DOMAIN faculty
    /\ selected_item_for_edit' = <<item_id>>
    /\ update_buttons' = [update_buttons EXCEPT !.faculty = "normal"]
    /\ UNCHANGED selectFrame

\* old_name is the row in selected_item_for_edit; pop runs only for a new name
update_faculty(old_name, new_name) ==
    /\ new_name # ""
    /\ ~(old_name # new_name /\ new_name \in DOMAIN faculty)
    /\ old_name # new_name => old_name \in DOMAIN faculty
    /\ faculty' = IF old_name # new_name
                  THEN With(Without(faculty, old_name), new_name, faculty[old_name])
                  ELSE faculty
    /\ selected_item_for_edit' = None
    /\ update_buttons' = [update_buttons EXCEPT !.faculty = "disabled"]
    /\ UNCHANGED <<batches, prog, classrooms, slots, saturday_var, weekdays, min_hours_day_var,
                   max_hours_day_var, class_max_daily_hours_var, runVars, subj_tree, poolVars,
                   params, callVars>>

\* collection.pop(old_name) of an update handler raises KeyError: the handler
\* ends there, Tk reports the exception and nothing was changed
pop_raises(collection, new_name) ==
    /\ selected_item_for_edit[1] \notin DOMAIN collection
    /\ selected_item_for_edit[1] # new_name
    /\ new_name \notin DOMAIN collection
    /\ outcome' = "KeyError"
    /\ UNCHANGED <<prog, appVars, guiVars, params, status, x, num_vars, solver_calls,
                   result, error>>

\* the Update Selected button of the Batches tab, command=self.update_batch,
\* past the handler's first guard
batch_update_button(new_name) ==
    /\ update_buttons.batch = "normal"
    /\ selected_item_for_edit # None
    /\ \/ update_batch(selected_item_for_edit[1], new_name)
       \/ pop_raises(batches, new_name)

\* the Update Selected button of the Faculty tab, command=self.update_faculty
faculty_update_button(new_name) ==
    /\ update_buttons.faculty = "normal"
    /\ selected_item_for_edit # None
    /\ \/ update_faculty(selected_item_for_edit[1], new_name)
       \/ pop_raises(faculty, new_name)

\* the Update Selected button of the Classrooms tab, command=self.update_classroom
class_update_button(new_name) ==
    /\ update_buttons.classroom = "normal"
    /\ selected_item_for_edit # None
    /\ \/ update_classroom(selected_item_for_edit[1], new_name, 1, "Lecture")
       \/ pop_raises(classrooms, new_name)

NextSelect ==
    \/ \E has_selection \in BOOLEAN : on_batch_select(has_selection)
    \/ \E has_selection \in BOOLEAN : on_faculty_select(has_selection)
    \/ \E has_selection \in BOOLEAN : on_classroom_select(has_selection)
    \/ \E item_id \in SelectBatchNames : on_batch_double_click(item_id)
    \/ \E item_id \in SelectFacultyNames : on_faculty_double_click(item_id)
    \/ \E item_id \in SelectClassroomNames : on_classroom_double_click(item_id)
    \/ \E new_name \in SelectBatchNames : batch_update_button(new_name)
    \/ \E new_name \in SelectFacultyNames : faculty_update_button(new_name)
    \/ \E new_name \in SelectClassroomNames : class_update_button(new_name)

SpecSelect == InitSelect /\ [][NextSelect]_vars

\* C27: whenever update_batch, update_faculty or update_classroom proceeds
\* past its first guard, selected_item_for_edit is a key of that operation's
\* own collection, after any sequence of selections and double-clicks across
\* the three lists
C27_EditTargetIntegrity ==
    [][/\ (\E n \in SelectBatchNames : batch_update_button(n))
            => selected_item_for_edit[1] \in DOMAIN batches
       /\ (\E n \in SelectFacultyNames : faculty_update_button(n))
            => selected_item_for_edit[1] \in DOMAIN faculty
       /\ (\E n \in SelectClassroomNames : class_update_button(n))
            => selected_item_for_edit[1] \in DOMAIN classrooms
      ]_vars

-----------------------------------------------------------------------------
(* Repeated Generate presses in both windows. Every generate_timetable that *)
(* gets past validation starts a thread and one root.after poller; the      *)
(* threads put on the shared solver_queue in the order they finish. The     *)
(* schedule a thread computes is held by the number of its invocation.      *)

\* how many times Generate is pressed
MaxInvocations == 3

InitQueue == InitSelect \/ InitProtoApp

\* what the threads and the pollers leave alone
queueFrame == <<prog, appVars, class_max_daily_hours_var, worker, built_with, shown,
                formVars, params, callVars>>

\* generate_timetable: the prototype returns when _get_and_validate_params
\* gave None (valid = FALSE), an invocation noted here without thread or poller
q_generate_timetable(valid) ==
    /\ Len(threads) < MaxInvocations
    /\ Generator => valid
    /\ threads' = Append(threads, [pc |-> IF valid THEN "running" ELSE "none", puts |-> 0])
    /\ pollers' = Append(pollers, [pc |-> IF valid THEN "scheduled" ELSE "none", took |-> <<>>,
                                 raised |-> FALSE])
    /\ UNCHANGED <<solver_queue, last_schedule_data, export_buttons, queueFrame>>

\* a thread without the except clause: a solve that raises puts nothing
q_execute_solver_thread_silent(i, message_status) ==
    /\ i \in DOMAIN threads
    /\ threads[i].pc = "running"
    /\ solver_queue' = IF message_status = "error" THEN solver_queue
                       ELSE Append(solver_queue, [status |-> message_status, run |-> i])
    /\ threads' = [threads EXCEPT ![i] =
                     [pc |-> "done", puts |-> IF message_status = "error" THEN 0 ELSE 1]]
    /\ UNCHANGED <<pollers, last_schedule_data, export_buttons, queueFrame>>

\* _execute_solver_thread of invocation i: the solve returns and the success
\* message is put, or it raises and the except clause puts the error message
q_execute_solver_thread(i, message_status) ==
    /\ i \in DOMAIN threads
    /\ threads[i].pc = "running"
    /\ solver_queue' = Append(solver_queue, [status |-> message_status, run |-> i])
    /\ threads' = [threads EXCEPT ![i] = [pc |-> "done", puts |-> @.puts + 1]]
    /\ UNCHANGED <<pollers, last_schedule_data, export_buttons, queueFrame>>

\* a handler of the queue that forgets the stored schedule on an error message
q_process_solver_queue_clearing(i, raised) ==
    /\ i \in DOMAIN pollers
    /\ pollers[i].pc = "scheduled"
    /\ solver_queue # <<>>
    /\ LET the_result == Head(solver_queue)
       IN  /\ solver_queue' = Tail(solver_queue)
           /\ pollers' = [pollers EXCEPT ![i] = [pc |-> "done", took |-> @.took \o <<the_result>>,
                                  raised |-> raised]]
           /\ IF the_result.status = "error"
              THEN /\ ~raised
                   /\ last_schedule_data' = None
                   /\ export_buttons' = "disabled"
              ELSE /\ raised => Generator
                   /\ last_schedule_data' = [run |-> the_result.run]
                   /\ export_buttons' = IF Generator /\ ~raised THEN "normal" ELSE export_buttons
    /\ UNCHANGED <<threads, queueFrame>>

\* _process_solver_queue as the timer of invocation i runs it: queue.Empty
\* reschedules it, a message is taken and handled and the poller ends; in the
\* generator the display of a success may raise before the buttons are enabled
q_process_solver_queue(i, raised) ==
    /\ i \in DOMAIN pollers
    /\ pollers[i].pc = "scheduled"
    /\ IF solver_queue = <<>>
       THEN /\ ~raised
            /\ UNCHANGED <<solver_queue, pollers, last_schedule_data, export_buttons>>
       ELSE LET the_result == Head(solver_queue)
            IN  /\ solver_queue' = Tail(solver_queue)
                /\ pollers' = [pollers EXCEPT ![i] =
                                 [pc |-> "done", took |-> @.took \o <<the_result>>,
                                  raised |-> raised]]
                /\ IF the_result.status = "error"
                   THEN /\ ~raised
                        /\ export_buttons' = IF Generator THEN "disabled" ELSE export_buttons
                        /\ UNCHANGED last_schedule_data
                   ELSE /\ raised => Generator
                        /\ last_schedule_data' = [run |-> the_result.run]
                        /\ export_buttons' =
                              IF Generator /\ ~raised THEN "normal" ELSE export_buttons
    /\ UNCHANGED <<threads, queueFrame>>

NextQueue ==
    \/ \E valid \in BOOLEAN : q_generate_timetable(valid)
    \/ \E i \in 1..MaxInvocations, message_status \in {"success", "error"} :
          q_execute_solver_thread(i, message_status)
    \/ \E i \in 1..MaxInvocations, raised \in BOOLEAN : q_process_solver_queue(i, raised)

SpecQueue == InitQueue /\ [][NextQueue]_vars

\* the solver call returns, the thread runs and the timer callback fires
QueueFairness ==
    \A i \in 1..MaxInvocations :
        /\ WF_vars(\E message_status \in {"success", "error"} :
                       q_execute_solver_thread(i, message_status))
        /\ WF_vars(\E raised \in BOOLEAN : q_process_solver_queue(i, raised))

SpecQueueFair == SpecQueue /\ QueueFairness

\* the invocations whose schedules were taken from the queue, in that order
ConsumedSuccesses ==
    {i \in DOMAIN threads : \E j \in DOMAIN pollers : \E k \in DOMAIN pollers[j].took :
        pollers[j].took[k] = [status |-> "success", run |-> i]}

\* two invocations overlapped, both solves succeeded and both results were
\* consumed
BothConsumed ==
    /\ Len(threads) = 2
    /\ ConsumedSuccesses = {1, 2}
    /\ solver_queue = <<>>

\* C26: when generate_timetable is invoked a second time while the earlier
\* solve is still running, then once both results have been consumed
\* last_schedule_data is the schedule computed by the most recent invocation,
\* for every interleaving of the two threads
C26_LatestRequestWins ==
    BothConsumed => last_schedule_data = [run |-> 2]

\* the poller of invocation i takes an error message in this step
HandlesError(i) ==
    /\ solver_queue # <<>>
    /\ Head(solver_queue).status = "error"
    /\ \E raised \in BOOLEAN : q_process_solver_queue(i, raised)

\* last_schedule_data is the data of a success message taken from the queue
HoldsSuccessfulResult ==
    /\ last_schedule_data # None
    /\ last_schedule_data.run \in ConsumedSuccesses

\* C29: when _process_solver_queue handles an error message,
\* last_schedule_data is left unchanged in both windows and in
\* TimetableGenerator the export buttons become disabled; in every reachable
\* state of TimetableGenerator an enabled export button implies that
\* last_schedule_data holds the result of a successful solve
C29_FailedSolveKeepsResult ==
    /\ [][\A i \in 1..MaxInvocations : HandlesError(i) =>
              /\ last_schedule_data' = last_schedule_data
              /\ Generator => export_buttons' = "disabled"]_vars
    /\ []((Generator /\ export_buttons = "normal") => HoldsSuccessfulResult)

\* a success was shown and its buttons enabled, then an error message was
\* handled: the schedule is still held and the buttons are disabled
C29_Witness ==
    /\ Generator
    /\ last_schedule_data # None
    /\ export_buttons = "disabled"
    /\ \A j \in DOMAIN pollers : ~pollers[j].raised
    /\ \E j \in DOMAIN pollers :
          pollers[j].took # <<>> /\ pollers[j].took[1].status = "error"

\* invocation i got past validation and started its thread and its poller
Started(i) == i \in DOMAIN threads /\ threads[i].pc # "none"

\* the thread of invocation i has put one message, its poller has taken one
\* message and has ended
Delivered(i) ==
    /\ i \in DOMAIN threads
    /\ threads[i].puts = 1
    /\ Len(pollers[i].took) = 1
    /\ pollers[i].pc = "done"

\* never more than one message put or taken for an invocation
AtMostOne ==
    \A i \in DOMAIN threads : threads[i].puts <= 1 /\ Len(pollers[i].took) <= 1

\* every generate_timetable invocation, also one the prototype's validation
\* turned down, is eventually followed by one message put and one taken
C25_EveryInvocation ==
    /\ []AtMostOne
    /\ \A i \in 1..MaxInvocations : [](i \in DOMAIN threads => <>[]Delivered(i))

\* C25: with a fair thread and a fair 100 ms timer, every generate_timetable
\* invocation that starts a worker thread is eventually followed by exactly
\* one message put on solver_queue and exactly one message taken and handled
\* by _process_solver_queue, after which its poller no longer reschedules
\* itself
C25_ResultDelivery ==
    /\ []AtMostOne
    /\ \A i \in 1..MaxInvocations : [](Started(i) => <>[]Delivered(i))

\* two overlapping invocations, both delivered
C25_Witness ==
    /\ Len(threads) >= 2
    /\ \A i \in DOMAIN threads : Started(i) /\ Delivered(i)

====
